---- MODULE Spec2Model ----
(***************************************************************************)
(* Model of the chat-ops glue handlers of youtube-stretch-routine-builder: *)
(* the Slack signature verifier, the slash-command router                  *)
(* (api/slack-commands.js), the button-action router                       *)
(* (api/slack-actions.js) and the chat handler (api/slack-claude.js).      *)
(*                                                                         *)
(* Strings are sequences of one-character strings.  A remote call          *)
(* (fetch) has one of the outcomes "ok" (2xx), "http_error" (a response    *)
(* whose status is not 2xx: the promise resolves) and "network_error"      *)
(* (the promise rejects).                                                  *)
(***************************************************************************)
EXTENDS Integers, Sequences, FiniteSets, TLC

\* ------------------------------------------------------------------ bounds

\* Timestamps are tried up to ReplayWindow + MaxDrift seconds from now.
MaxDrift == 1
\* Number of hex characters of a digest (64 in the program).
DigestLen == 2
\* Longest free text of a slash command.
MaxTextLen == 1
\* Number of inbound requests of one behaviour.
MaxEvents == 2
\* Chat events of one behaviour of the conversation cache.
MaxTurns == 13
\* LLM calls of one behaviour of the conversation cache that fail.
MaxLlmFaults == 1
\* Threads opened in one behaviour of the cache's eviction.
MaxThreads == 102
\* Longest errors array of a report.
MaxErrors == 2

\* -------------------------------------------------------- program constants

\* slack-commands.js:472, slack-actions.js:285, slack-claude.js:201
ReplayWindow == 300
\* slack-claude.js:63
HistoryCap == 20
\* slack-claude.js:187
MaxConversations == 100

VARIABLES
    env,            \* process.env: signingSecret, apiKey, botToken
    now,            \* Math.floor(Date.now() / 1000)
    req,            \* the HTTP request the handler was invoked with
    pc,             \* position of the handler
    ev,             \* the handler's locals, read from the request body
    verified,       \* what the signature check of this request came to
    phase,          \* state of the event: received, acknowledged, ...
    log,            \* responses written and remote calls made, in order
    pending,        \* the remote call the handler is awaiting
    result,         \* the message the command or action handler built
    step,           \* number of remote calls the command handler awaited
    history,        \* slack-claude.js: the handler's local `history`
    chunks,         \* slack-claude.js: chunks postToSlack has yet to post
    buttons,        \* action buttons of the messages delivered so far
    conversations,  \* slack-claude.js: the conversation cache
    nEvents,        \* requests received so far
    said,           \* every message pushed onto a history, by conversation key
    vreq,           \* the request verifySlackSignature is applied to
    vres,           \* what verifySlackSignature answered
    pin,            \* what a producer of action buttons is given
    emitted,        \* the action buttons of the message it built
    parsed,         \* a button, and what its action handler made of its value
    wenv,           \* process.env of report-error, submit-feedback, slack-notify
    wreq,           \* the request one of these handlers was invoked with
    wpc,            \* position of that handler
    wlog,           \* the remote calls it made and the response it wrote
    grouped,        \* report-error: the groups the loop has yet to handle
    issue,          \* the issue the tracker returned for the current group
    wmsg,           \* slack-notify: what buildMessage came to
    tin,            \* truncate: its arguments
    tout,           \* truncate: what it returned
    config,         \* error-logger.js: CONFIG
    clock,          \* Date.now() in the page, ms since the script loaded
    errorQueue,     \* error-logger.js: errorQueue
    errorCount,     \* error-logger.js: errorCount
    lastErrorReset, \* error-logger.js: lastErrorReset
    batchTimer,     \* error-logger.js: batchTimer, with the time it is due
    sentErrors,     \* the errors of the payloads handed to the browser to send
    accepted,       \* every error pushed onto errorQueue, with the time
    nCaptured,      \* calls of captureError so far
    widgetOpen,     \* feedback-widget.js: widgetOpen
    view,           \* which of fw-form-bug, fw-form-feature, fw-success shows
    titles,         \* whether fw-bug-title, fw-feature-title hold a text
    disabled,       \* btn.disabled of fw-submit-bug, fw-submit-feature
    successTimers,  \* pending timers of showSuccess
    resetTimers,    \* pending timers set to call resetForms
    nSubmits,       \* submissions so far
    postText,       \* slack-claude.js: the text postToSlack is called with
    handlers,       \* slack-claude.js: the invocations of the handler in flight
    arrays,         \* the history arrays they created, by reference
    storedRefs,     \* the conversations Map: key and reference of its array
    analysis,       \* bug-analyzer.js: what analyzeBug returned
    webhookUrl,     \* bug-analyzer.js: whether SLACK_WEBHOOK_URL is set
    apc,            \* where main() of bug-analyzer.js is
    changeIdx,      \* createFixPR: the change the loop is at
    alog            \* the remote calls of the run, with their outcomes

\* The variables of the handlers outside the three Slack routers.
webVars == <<wenv, wreq, wpc, wlog, grouped, issue, wmsg>>

truncVars == <<tin, tout>>

\* The variables of the helpers and of the scripts outside the api handlers.
loggerVars == <<config, clock, errorQueue, errorCount, lastErrorReset, batchTimer,
                sentErrors, accepted, nCaptured>>

widgetVars == <<widgetOpen, view, titles, disabled, successTimers, resetTimers, nSubmits>>

raceVars == <<handlers, arrays, storedRefs>>
analyzerVars == <<analysis, webhookUrl, apc, changeIdx, alog>>

clientVars == <<truncVars, loggerVars, widgetVars, postText, raceVars, analyzerVars>>

otherVars == <<pin, emitted, parsed, webVars, clientVars>>

vars == <<env, now, req, pc, ev, verified, phase, log, pending, result, step,
          history, chunks, buttons, conversations, nEvents, said, vreq, vres, otherVars>>

routerVars == <<req, pc, ev, verified, phase, log, pending, result, step,
                history, chunks, buttons, conversations, nEvents, said>>

\* ----------------------------------------------------------------- strings

Abs(n) == IF n < 0 THEN -n ELSE n

\* All sequences over S of length at most n.
SeqsUpTo(S, n) == UNION {[1..k -> S] : k \in 0..n}

IsSpace(c) == c = " "

RECURSIVE TrimStart(_)
TrimStart(s) ==
    IF s = <<>> THEN s
    ELSE IF IsSpace(Head(s)) THEN TrimStart(Tail(s)) ELSE s

RECURSIVE TrimEnd(_)
TrimEnd(s) ==
    IF s = <<>> THEN s
    ELSE IF IsSpace(s[Len(s)]) THEN TrimEnd(SubSeq(s, 1, Len(s) - 1)) ELSE s

\* String.prototype.trim
Trim(s) == TrimEnd(TrimStart(s))

\* A JavaScript string in a condition: the empty string is falsy.
Truthy(s) == s # <<>>

\* ----------------------------------------------------------- request model

\* process.env.SLACK_SIGNING_SECRET when it is not set.
NoSecret == ""
\* The secret Slack signs with.
SlackSecret == "s3cr3t"
\* A secret somebody else signs with.
OtherSecret == "guess"

\* The x-slack-request-timestamp header: k says what string it is,
\*   "undefined" (no header), "empty", "int" (the decimal digits of n),
\*   "intjunk" (the digits of n followed by other characters), "junk"
\*   (no leading digits).
TsUndefined == [k |-> "undefined", n |-> 0]
TsInt(n) == [k |-> "int", n |-> n]

TsTruthy(ts) == ts.k \notin {"undefined", "empty"}

\* parseInt(timestamp): NaN when the string does not start with digits.
ParseInt(ts) == [nan |-> ts.k \notin {"int", "intjunk"}, n |-> ts.n]

\* What a request body decodes to.  kind: "command" (slash command),
\* "action" (button click), "chat" (event callback), "challenge"
\* (url_verification) or "" (none of them).  id: the command, the action_id
\* or the event type.  hasValue/value: the button's value.  hasUrl: a
\* response_url is given.  chanType, bot, thread: channel_type, bot_id set,
\* thread_ts || ts of a chat event.  The text of a url_verification body is
\* its challenge.
NoData ==
    [kind |-> "", id |-> "", text |-> <<>>, hasValue |-> FALSE, value |-> <<>>,
     hasUrl |-> FALSE, chanType |-> "", bot |-> FALSE, thread |-> ""]

\* The request body as the sender wrote it: enc is its encoding, "form"
\* (application/x-www-form-urlencoded), "json" (JSON exactly as
\* JSON.stringify writes it) or "jsonws" (the same JSON written otherwise:
\* whitespace, escapes, key order); data is what it decodes to.
RawBody(r) == [enc |-> r.enc, data |-> r.data]

\* JSON.stringify(req.body) of the object the platform parsed the body into.
JSONstringifyBody(r) == [enc |-> "json", data |-> r.data]

\* One character of a signature.  The characters of the "v0=" prefix are
\* named by ch; a hex character of a digest is named by what was digested
\* (key, ts, body), its position, and alt (TRUE: another character than the
\* digest has at that position).
PlainChar(c) ==
    [ch |-> c, key |-> "", ts |-> TsUndefined, body |-> [enc |-> "", data |-> NoData],
     pos |-> 0, alt |-> FALSE]

V0Prefix == <<PlainChar("v"), PlainChar("0"), PlainChar("=")>>

\* crypto.createHmac('sha256', key).update(`v0:${ts}:${body}`).digest('hex'):
\* a string of DigestLen characters; distinct (key, ts, body) have distinct
\* digests.
HmacHex(key, ts, body) ==
    [i \in 1..DigestLen |->
        [ch |-> "x", key |-> key, ts |-> ts, body |-> body, pos |-> i, alt |-> FALSE]]

\* The x-slack-signature header: has = FALSE when the header is absent.
SigUndefined == [has |-> FALSE, s |-> <<>>]
SigTruthy(sig) == sig.has /\ sig.s # <<>>

\* The signature Slack (or whoever holds `key`) computes for a request with
\* timestamp header ts and raw body raw.
Sign(key, ts, raw) == [has |-> TRUE, s |-> V0Prefix \o HmacHex(key, ts, raw)]

\* crypto.timingSafeEqual(Buffer.from(a), Buffer.from(b)): a RangeError when
\* the byte lengths differ.
TimingSafeEqual(a, b) ==
    IF Len(a) # Len(b) THEN "throws"
    ELSE IF a = b THEN "true" ELSE "false"

\* Math.abs(now - parseInt(timestamp)) > 300; NaN > 300 is false.
OutsideWindow(t, ts) ==
    ~ParseInt(ts).nan /\ Abs(t - ParseInt(ts).n) > ReplayWindow

\* typeof req.body === 'string' ? req.body : JSON.stringify(req.body)
BodyForSignature(r) ==
    IF r.form = "string" THEN RawBody(r) ELSE JSONstringifyBody(r)

\* verifySlackSignature(req): "true", "false", or "throws".
VerifySlackSignature(r, secret, t) ==
    IF ~TsTruthy(r.ts) \/ ~SigTruthy(r.sig) \/ secret = NoSecret THEN "false"
    ELSE IF OutsideWindow(t, r.ts) THEN "false"
    ELSE LET mySignature == V0Prefix \o HmacHex(secret, r.ts, BodyForSignature(r))
         IN  TimingSafeEqual(mySignature, r.sig.s)

\* ------------------------------------------------- inputs of the verifier

\* The clock: late enough for every timestamp tried to be positive.
ClockValue == ReplayWindow + MaxDrift + 1

TsValues(t) ==
    {t} \cup {t - ReplayWindow - d : d \in 0..MaxDrift}
        \cup {t + ReplayWindow + d : d \in 0..MaxDrift}
        \cup {t - ReplayWindow + 1, t + ReplayWindow - 1}

TsHeaders(t) ==
    {TsUndefined, [k |-> "empty", n |-> 0], [k |-> "junk", n |-> 0]}
        \cup {[k |-> k, n |-> n] : k \in {"int", "intjunk"}, n \in TsValues(t)}

\* Ways a signature is altered on its way: one character changed (flip, at
\* any position), the last one dropped, one added.
Tampers ==
    {[how |-> "none", at |-> 0], [how |-> "truncate", at |-> 0],
     [how |-> "extend", at |-> 0]}
        \cup {[how |-> "flip", at |-> i] : i \in 1..(Len(V0Prefix) + DigestLen)}

Tamper(sig, t) ==
    CASE t.how = "none" -> sig
      [] t.how = "truncate" -> [sig EXCEPT !.s = SubSeq(sig.s, 1, Len(sig.s) - 1)]
      [] t.how = "extend" -> [sig EXCEPT !.s = Append(sig.s, PlainChar("0"))]
      [] t.how = "flip" -> [sig EXCEPT !.s[t.at].alt = TRUE]

SigHeaders(ts, raw) ==
    {SigUndefined, [has |-> TRUE, s |-> <<>>]}
        \cup {Tamper(Sign(k, ts, raw), t) : k \in {SlackSecret, OtherSecret}, t \in Tampers}

Encodings == {"form", "json", "jsonws"}
BodyForms == {"string", "object"}

VerifyData ==
    {[NoData EXCEPT !.kind = "command", !.id = c] : c \in {"/deploy", "/bug"}}

VerifyInputs(t) ==
    UNION {
        {[ts |-> ts, sig |-> sig, enc |-> enc, form |-> form, data |-> d]
            : sig \in SigHeaders(ts, [enc |-> enc, data |-> d]), form \in BodyForms}
        : ts \in TsHeaders(t), enc \in Encodings, d \in VerifyData}

NoRequest ==
    [ts |-> TsUndefined, sig |-> SigUndefined, enc |-> "", form |-> "", data |-> NoData]

\* -------------------------------------------------------------------- JSON

\* A JSON object is a sequence of fields [key, isNum, val]: val holds the
\* characters of a string value, or the digits of a number (isNum).
Field(k, isNum, v) == [key |-> k, isNum |-> isNum, val |-> v]

RECURSIVE Escape(_)
Escape(s) ==
    IF s = <<>> THEN <<>>
    ELSE (IF Head(s) \in {"\"", "\\"} THEN <<"\\", Head(s)>> ELSE <<Head(s)>>)
            \o Escape(Tail(s))

JsonString(s) == <<"\"">> \o Escape(s) \o <<"\"">>

RECURSIVE JsonMembers(_)
JsonMembers(fs) ==
    IF fs = <<>> THEN <<>>
    ELSE JsonString(<<Head(fs).key>>) \o <<":">>
            \o (IF Head(fs).isNum THEN Head(fs).val ELSE JsonString(Head(fs).val))
            \o (IF Len(fs) > 1 THEN <<",">> ELSE <<>>)
            \o JsonMembers(Tail(fs))

\* JSON.stringify of an object
JSONstringify(fs) == <<"{">> \o JsonMembers(fs) \o <<"}">>

Digits == {"0", "1", "2", "3", "4", "5", "6", "7", "8", "9"}

ParseFail == [ok |-> FALSE, val |-> <<>>, next |-> 0]

\* A string literal starting after its opening quote at s[i].
RECURSIVE ReadChars(_, _, _)
ReadChars(s, i, acc) ==
    IF i > Len(s) THEN ParseFail
    ELSE IF s[i] = "\"" THEN [ok |-> TRUE, val |-> acc, next |-> i + 1]
    ELSE IF s[i] = "\\"
         THEN IF i + 1 > Len(s) \/ s[i + 1] \notin {"\"", "\\"} THEN ParseFail
              ELSE ReadChars(s, i + 2, Append(acc, s[i + 1]))
    ELSE ReadChars(s, i + 1, Append(acc, s[i]))

RECURSIVE ReadDigits(_, _, _)
ReadDigits(s, i, acc) ==
    IF i <= Len(s) /\ s[i] \in Digits THEN ReadDigits(s, i + 1, Append(acc, s[i]))
    ELSE IF acc = <<>> THEN ParseFail
    ELSE [ok |-> TRUE, val |-> acc, next |-> i]

ObjectFail == [ok |-> FALSE, isObject |-> FALSE, fields |-> <<>>]

\* The members of an object from s[i] on, up to the closing brace, which
\* must end the text.
RECURSIVE ReadMembers(_, _, _)
ReadMembers(s, i, acc) ==
    IF i > Len(s) \/ s[i] # "\"" THEN ObjectFail
    ELSE LET k == ReadChars(s, i + 1, <<>>)
         IN  IF ~k.ok \/ k.next > Len(s) \/ s[k.next] # ":" \/ k.next + 1 > Len(s)
             THEN ObjectFail
             ELSE LET isNum == s[k.next + 1] # "\""
                      v == IF isNum THEN ReadDigits(s, k.next + 1, <<>>)
                           ELSE ReadChars(s, k.next + 2, <<>>)
                      fs == Append(acc, Field(k.val[1], isNum, v.val))
                  IN  IF ~v.ok \/ v.next > Len(s) \/ Len(k.val) # 1 THEN ObjectFail
                      ELSE IF s[v.next] = "}"
                           THEN IF v.next = Len(s)
                                THEN [ok |-> TRUE, isObject |-> TRUE, fields |-> fs]
                                ELSE ObjectFail
                      ELSE IF s[v.next] = "," THEN ReadMembers(s, v.next + 1, fs)
                      ELSE ObjectFail

\* JSON.parse: ok = FALSE is a SyntaxError; a text of digits is a number
\* (isObject = FALSE), which has no properties.
JSONparse(s) ==
    IF s = <<>> THEN ObjectFail
    ELSE IF s[1] = "{"
         THEN IF Len(s) = 2 /\ s[2] = "}"
              THEN [ok |-> TRUE, isObject |-> TRUE, fields |-> <<>>]
              ELSE ReadMembers(s, 2, <<>>)
    ELSE LET n == ReadDigits(s, 1, <<>>)
         IN  IF n.ok /\ n.next = Len(s) + 1
             THEN [ok |-> TRUE, isObject |-> FALSE, fields |-> <<>>]
             ELSE ObjectFail

\* obj[key]: has = FALSE when undefined.
Prop(obj, key) ==
    IF \E i \in 1..Len(obj.fields) : obj.fields[i].key = key
    THEN LET i == CHOOSE j \in 1..Len(obj.fields) :
                    /\ obj.fields[j].key = key
                    /\ \A m \in (j + 1)..Len(obj.fields) : obj.fields[m].key # key
         IN  [has |-> TRUE, val |-> obj.fields[i].val]
    ELSE [has |-> FALSE, val |-> <<>>]

\* ------------------------------------------------ messages, calls, buttons

\* An action button of a message: shown is the branch the message names.
Button(id, hasValue, value, shown) ==
    [action_id |-> id, hasValue |-> hasValue, value |-> value, shown |-> shown]

NoButton == Button("", FALSE, <<>>, <<>>)

\* A message: tag names its text template, branch the branch it names,
\* detail the remote response its text quotes.
Msg(tag) == [tag |-> tag, branch |-> <<>>, btns |-> {}, detail |-> ""]

NoMsg == Msg("")

NoCall == [kind |-> "", op |-> "", ref |-> <<>>]

\* What a command or action handler does next: awaits a remote call,
\* returns its message, or throws.
Ret(m) == [type |-> "return", call |-> NoCall, msg |-> m]
Call(kind, op, ref) ==
    [type |-> "call", call |-> [kind |-> kind, op |-> op, ref |-> ref], msg |-> NoMsg]
Throw == [type |-> "throw", call |-> NoCall, msg |-> NoMsg]

\* The numbers the tracker gives the issue and the pull request.
IssueNumber == <<"7">>
PrNumber == <<"5">>
MainBranch == <<"m", "a", "i", "n">>
UserName == <<"alice">>

Outcomes(call) ==
    {"ok", "http_error", "network_error"}
        \cup (IF call.op = "list_issues" THEN {"ok_empty"} ELSE {})

\* response.ok
Ok(o) == o \in {"ok", "ok_empty"}

\* --------------------------------------------- slash commands: the handlers
\* Each handler is given k, the number of remote calls it has awaited, and o,
\* the outcome of the last of them.

\* createGitHubIssue(title, body, labels), then the handler's message m.
CreateGitHubIssue(k, o, m) ==
    IF k = 0 THEN Call("tracker", "create_issue", <<>>)
    ELSE IF Ok(o) THEN Ret(m) ELSE Throw

handleBugCommand(text, userName, k, o) ==
    IF ~Truthy(text) THEN Ret(Msg("usage_bug"))
    ELSE CreateGitHubIssue(k, o,
            [Msg("bug_reported") EXCEPT
                !.btns = {Button("trigger_ai_analysis", TRUE, IssueNumber, <<>>)}])

handleFeatureCommand(text, userName, k, o) ==
    IF ~Truthy(text) THEN Ret(Msg("usage_feature"))
    ELSE CreateGitHubIssue(k, o,
            [Msg("feature_requested") EXCEPT
                !.btns = {Button("add_to_roadmap", TRUE, IssueNumber, <<>>)}])

handleAskClaudeCommand(text, userName, apiKey, k, o) ==
    IF ~Truthy(text) THEN Ret(Msg("usage_ask_claude"))
    ELSE IF ~apiKey THEN Ret(Msg("not_configured"))
    ELSE IF k = 0 THEN Call("llm", "messages", <<>>)
    ELSE IF Ok(o) THEN Ret(Msg("claude_answer")) ELSE Throw

handleBugStatusCommand(text, k, o) ==
    LET issueNumber == IF Truthy(text) THEN Trim(text) ELSE <<>>
    IN  IF Truthy(issueNumber)
        THEN IF k = 0 THEN Call("tracker", "get_issue", issueNumber)
             ELSE IF o = "network_error" THEN Throw
             ELSE IF ~Ok(o) THEN Ret(Msg("issue_not_found"))
             ELSE Ret(Msg("issue_status"))
        ELSE IF k = 0 THEN Call("tracker", "list_issues", <<>>)
             ELSE IF o = "network_error" THEN Throw
             \* response.json() of an error response is an object: it has
             \* no length, as the empty list has length 0
             ELSE IF o \in {"http_error", "ok_empty"} THEN Ret(Msg("no_open_bugs"))
             ELSE Ret(Msg("open_bugs"))

\* const branch = text ? text.trim() : 'main'
DeployBranch(text) == IF Truthy(text) THEN Trim(text) ELSE MainBranch

\* A /deploy that dispatches the workflow itself, without confirmation.
DeployNowStep(text, userName, k, o) ==
    IF k = 0 THEN Call("tracker", "dispatch", DeployBranch(text))
    ELSE Ret([Msg("deploy_started") EXCEPT !.branch = DeployBranch(text)])

handleDeployCommand(text, userName, k, o) ==
    LET branch == DeployBranch(text)
    IN  Ret([tag |-> "deploy_requested", branch |-> branch, detail |-> "",
             btns |-> {Button("confirm_deploy", TRUE,
                              JSONstringify(<<Field("branch", FALSE, branch),
                                              Field("requestedBy", FALSE, userName)>>),
                              branch),
                       Button("cancel_deploy", FALSE, <<>>, branch)}])

handleApprovePRCommand(text, userName, k, o) ==
    IF ~Truthy(text) THEN Ret(Msg("usage_approve_pr"))
    ELSE IF k = 0 THEN Call("tracker", "get_pr", Trim(text))
    ELSE IF o = "network_error" THEN Throw
    ELSE IF ~Ok(o) THEN Ret(Msg("pr_not_found"))
    ELSE Ret([Msg("pr_details") EXCEPT
                !.btns = {Button("approve_merge_pr", TRUE,
                                 JSONstringify(<<Field("prNumber", TRUE, PrNumber),
                                                 Field("approver", FALSE, userName)>>),
                                 <<>>),
                          Button("reject_pr", TRUE,
                                 JSONstringify(<<Field("prNumber", TRUE, PrNumber)>>),
                                 <<>>)}])

\* A switch without a default branch for the commands it does not know.
CommandStepStrict(d, apiKey, k, o) ==
    CASE d.id = "/bug" -> handleBugCommand(d.text, UserName, k, o)
      [] d.id = "/feature" -> handleFeatureCommand(d.text, UserName, k, o)
      [] d.id = "/ask-claude" -> handleAskClaudeCommand(d.text, UserName, apiKey, k, o)
      [] d.id = "/bug-status" -> handleBugStatusCommand(d.text, k, o)
      [] d.id = "/deploy" -> handleDeployCommand(d.text, UserName, k, o)
      [] d.id = "/approve-pr" -> handleApprovePRCommand(d.text, UserName, k, o)
      [] OTHER -> Throw

\* slack-commands.js: the switch on the command
CommandStep(d, apiKey, k, o) ==
    CASE d.id = "/bug" -> handleBugCommand(d.text, UserName, k, o)
      [] d.id = "/feature" -> handleFeatureCommand(d.text, UserName, k, o)
      [] d.id = "/ask-claude" -> handleAskClaudeCommand(d.text, UserName, apiKey, k, o)
      [] d.id = "/bug-status" -> handleBugStatusCommand(d.text, k, o)
      [] d.id = "/deploy" -> handleDeployCommand(d.text, UserName, k, o)
      [] d.id = "/approve-pr" -> handleApprovePRCommand(d.text, UserName, k, o)
      [] OTHER -> Ret(Msg("unknown_command"))

\* --------------------------------------------- button actions: the handlers

\* JSON.parse(value); JSON.parse(undefined) is a SyntaxError.
ParseValue(hasValue, value) == IF hasValue THEN JSONparse(value) ELSE ObjectFail

\* typeof value === 'string' && value.startsWith('{')
\*     ? JSON.parse(value).issueNumber : value
\* ok = FALSE: JSON.parse threw.
IssueNumberOf(hasValue, value) ==
    IF hasValue /\ value # <<>> /\ value[1] = "{"
    THEN [ok |-> JSONparse(value).ok, val |-> Prop(JSONparse(value), "issueNumber").val]
    ELSE [ok |-> TRUE, val |-> value]

handleTriggerAIAnalysis(hasValue, value, k, o) ==
    LET issueNumber == IssueNumberOf(hasValue, value)
    IN  IF ~issueNumber.ok THEN Throw
        ELSE IF k = 0 THEN Call("tracker", "add_label", issueNumber.val)
        ELSE IF o = "network_error" THEN Throw
        ELSE Ret(Msg("analysis_triggered"))

\* An approval that answers "approved and merged" without looking at the
\* merge response.
handleApproveMergePRUnchecked(hasValue, value, k, o) ==
    LET data == ParseValue(hasValue, value)
        prNumber == Prop(data, "prNumber").val
    IN  IF ~data.ok THEN Throw
        ELSE IF k = 0 THEN Call("tracker", "create_review", prNumber)
        ELSE IF o = "network_error" THEN Throw
        ELSE IF k = 1 THEN Call("tracker", "merge", prNumber)
        ELSE Ret(Msg("merged"))

\* slack-actions.js lines 127-178: the review is awaited and its response
\* dropped; `Failed to merge PR #n: ${await mergeResponse.text()}` quotes
\* the merge response.
handleApproveMergePR(hasValue, value, k, o) ==
    LET data == ParseValue(hasValue, value)
        prNumber == Prop(data, "prNumber").val
    IN  IF ~data.ok THEN Throw
        ELSE IF k = 0 THEN Call("tracker", "create_review", prNumber)
        ELSE IF o = "network_error" THEN Throw
        ELSE IF k = 1 THEN Call("tracker", "merge", prNumber)
        ELSE IF ~Ok(o) THEN Ret([Msg("merge_failed") EXCEPT !.detail = o])
        ELSE Ret(Msg("merged"))

handleRejectPR(hasValue, value, k, o) ==
    LET data == ParseValue(hasValue, value)
    IN  IF ~data.ok THEN Throw
        ELSE IF k = 0 THEN Call("tracker", "close_pr", Prop(data, "prNumber").val)
        ELSE IF o = "network_error" THEN Throw
        ELSE Ret(Msg("pr_rejected"))

handleConfirmDeploy(hasValue, value, k, o) ==
    LET data == ParseValue(hasValue, value)
        \* data.branch || 'main'
        ref == IF Truthy(Prop(data, "branch").val) THEN Prop(data, "branch").val
               ELSE MainBranch
    IN  IF ~data.ok THEN Throw
        ELSE IF k = 0 THEN Call("tracker", "dispatch", ref)
        ELSE IF o = "network_error" THEN Throw
        ELSE IF ~Ok(o) THEN Ret(Msg("deploy_failed"))
        ELSE Ret([Msg("deploy_started") EXCEPT !.branch = ref])

handleAcknowledgeIncident(hasValue, value, k, o) ==
    IF ~ParseValue(hasValue, value).ok THEN Throw
    ELSE Ret(Msg("incident_acknowledged"))

handleAddToRoadmap(hasValue, value, k, o) ==
    LET issueNumber == IssueNumberOf(hasValue, value)
    IN  IF ~issueNumber.ok THEN Throw
        ELSE IF k = 0 THEN Call("tracker", "add_label", issueNumber.val)
        ELSE IF o = "network_error" THEN Throw
        ELSE Ret(Msg("added_to_roadmap"))

\* slack-actions.js: the switch on action.action_id
ActionStep(d, k, o) ==
    CASE d.id = "trigger_ai_analysis" -> handleTriggerAIAnalysis(d.hasValue, d.value, k, o)
      [] d.id = "approve_merge_pr" -> handleApproveMergePR(d.hasValue, d.value, k, o)
      [] d.id = "reject_pr" -> handleRejectPR(d.hasValue, d.value, k, o)
      [] d.id = "confirm_deploy" -> handleConfirmDeploy(d.hasValue, d.value, k, o)
      [] d.id = "cancel_deploy" -> Ret(Msg("deploy_cancelled"))
      [] d.id = "acknowledge_incident" -> handleAcknowledgeIncident(d.hasValue, d.value, k, o)
      [] d.id = "add_to_roadmap" -> handleAddToRoadmap(d.hasValue, d.value, k, o)
      [] OTHER -> Ret(Msg("unknown_action"))

\* ------------------------------------------------------ conversation cache
\* `conversations` is a Map: a sequence of [key, msgs] in insertion order.

HasKey(c, key) == \E i \in 1..Len(c) : c[i].key = key

\* conversations.get(key)
CacheGet(c, key) == c[CHOOSE i \in 1..Len(c) : c[i].key = key].msgs

\* conversations.set(key, msgs): an existing key keeps its place.
CacheSet(c, key, msgs) ==
    IF HasKey(c, key)
    THEN [i \in 1..Len(c) |-> IF c[i].key = key THEN [key |-> key, msgs |-> msgs] ELSE c[i]]
    ELSE Append(c, [key |-> key, msgs |-> msgs])

\* A push that, over the cap, drops the newest entries and not the oldest.
PushTrimNewest(msgs, m) ==
    LET h == Append(msgs, m)
    IN  IF Len(h) > HistoryCap THEN SubSeq(h, 1, HistoryCap) ELSE h

\* history.push(m); if (history.length > 20) history.splice(0, length - 20)
PushTrim(msgs, m) ==
    LET h == Append(msgs, m)
    IN  IF Len(h) > HistoryCap THEN SubSeq(h, Len(h) - HistoryCap + 1, Len(h)) ELSE h

\* cleanupConversations(): one pass over the Map in insertion order.
RECURSIVE CleanupPass(_, _)
CleanupPass(kept, rest) ==
    IF rest = <<>> THEN kept
    ELSE IF Len(Head(rest).msgs) = 0 \/ Len(kept) + Len(rest) > MaxConversations
         THEN CleanupPass(kept, Tail(rest))
         ELSE CleanupPass(Append(kept, Head(rest)), Tail(rest))

\* A pass that deletes the empty histories only.
cleanupEmptyOnly(c) == SelectSeq(c, LAMBDA x : Len(x.msgs) # 0)

cleanupConversations(c) == CleanupPass(<<>>, c)

\* text.replace(/<@[A-Z0-9]+>/g, ''): a mention is the one character "<@U1>".
RECURSIVE StripMentions(_)
StripMentions(s) ==
    IF s = <<>> THEN <<>>
    ELSE (IF Head(s) = "<@U1>" THEN <<>> ELSE <<Head(s)>>) \o StripMentions(Tail(s))

\* slack-claude.js:147
ChunkMaxLen == 3900

\* A search for the newline that stops one character earlier.
LastIndexOfNewlineBefore(s, from) ==
    LET hits == {i \in 0..(from - 1) : i + 1 <= Len(s) /\ s[i + 1] = "\n"}
    IN  IF hits = {} THEN -1 ELSE CHOOSE i \in hits : \A j \in hits : j <= i

\* remaining.lastIndexOf('\n', from): the greatest 0-based index <= from of
\* a newline, or -1.
LastIndexOfNewline(s, from) ==
    LET hits == {i \in 0..from : i + 1 <= Len(s) /\ s[i + 1] = "\n"}
    IN  IF hits = {} THEN -1 ELSE CHOOSE i \in hits : \A j \in hits : j <= i

\* postToSlack: the chunks of a text
RECURSIVE SplitChunks(_)
SplitChunks(remaining) ==
    IF Len(remaining) = 0 THEN <<>>
    ELSE IF Len(remaining) <= ChunkMaxLen THEN <<remaining>>
    ELSE LET idx == LastIndexOfNewline(remaining, ChunkMaxLen)
             splitIdx == IF 2 * idx < ChunkMaxLen THEN ChunkMaxLen ELSE idx
         IN  <<SubSeq(remaining, 1, splitIdx)>>
                \o SplitChunks(SubSeq(remaining, splitIdx + 1, Len(remaining)))

\* The texts callClaude returns: the model's reply, or a fixed text.
ReplyText == <<"r">>
SorryText == <<"sorry">>
NotConfiguredText == <<"not configured">>

\* ---------------------------------------- the synchronous part of a handler
\* What a handler does with a request before its first await: the status it
\* answers (0: no response written), what the signature check came to
\* ("unchecked": it returned before the check; "skipped": no check was made),
\* where it goes on (next) and the fields it read from the body (d).

Entered(status, v, next, d) ==
    [status |-> status, verified |-> v, next |-> next, d |-> d, body |-> <<>>]

\* process.env.SLACK_SIGNING_SECRET && !verifySlackSignature(req)
CheckSignature(r, e, t) ==
    IF e.signingSecret = NoSecret THEN "skipped"
    ELSE VerifySlackSignature(r, e.signingSecret, t)

\* const { command, text, user_name, response_url } = req.body: every
\* property of a string is undefined
CommandFields(r) ==
    IF r.form = "object" THEN r.data
    ELSE [NoData EXCEPT !.kind = "command", !.id = "undefined"]

\* A handler that goes on to its work without having written the
\* acknowledgement.
AfterCheckLate(v, d) ==
    IF v = "false" THEN Entered(401, v, "done", NoData)
    ELSE IF v = "throws" THEN Entered(0, v, "raised", NoData)
    ELSE Entered(0, v, "route", d)

\* The handler after the signature check: 401 on false (a throw of the
\* check leaves the handler), else the 200 acknowledgement, and on.
AfterCheck(v, d) ==
    IF v = "false" THEN Entered(401, v, "done", NoData)
    ELSE IF v = "throws" THEN Entered(0, v, "raised", NoData)
    ELSE Entered(200, v, "route", d)

\* slack-commands.js handler, lines 22-38
CommandsEntry(r, e, t) ==
    IF r.method # "POST" THEN Entered(405, "unchecked", "done", NoData)
    ELSE AfterCheck(CheckSignature(r, e, t), CommandFields(r))

\* slack-actions.js handler, lines 22-45: JSON.parse(req.body) of a string
\* body throws unless the body is JSON; the payload field of a parsed form
\* body and a parsed JSON body both give the payload.
ActionsEntry(r, e, t) ==
    IF r.method # "POST" THEN Entered(405, "unchecked", "done", NoData)
    ELSE IF r.form = "string" /\ r.enc = "form"
         THEN Entered(400, "unchecked", "done", NoData)
    ELSE AfterCheck(CheckSignature(r, e, t), r.data)

\* A chat handler without the url_verification branch.
ClaudeEntryNoChallenge(r, e, t) ==
    IF r.method # "POST" THEN Entered(405, "unchecked", "done", NoData)
    ELSE AfterCheck(CheckSignature(r, e, t),
                    IF r.form = "object" THEN r.data ELSE NoData)

\* slack-claude.js handler, lines 25-41: req.body.type and req.body.event of
\* a string body are undefined; res.status(200).json({ challenge:
\* req.body.challenge }) answers a url_verification body
ClaudeEntry(r, e, t) ==
    IF r.method # "POST" THEN Entered(405, "unchecked", "done", NoData)
    ELSE IF r.form = "object" /\ r.data.kind = "challenge"
         THEN [Entered(200, "unchecked", "done", r.data) EXCEPT !.body = r.data.text]
    ELSE AfterCheck(CheckSignature(r, e, t),
                    IF r.form = "object" THEN r.data ELSE NoData)

\* ------------------------------------------------------- inbound requests

CommandIds ==
    {"/bug", "/feature", "/ask-claude", "/bug-status", "/deploy", "/approve-pr"}
ActionIds ==
    {"trigger_ai_analysis", "approve_merge_pr", "reject_pr", "confirm_deploy",
     "cancel_deploy", "acknowledge_incident", "add_to_roadmap"}

TextAlphabet == {" ", "d", "\""}

CommandTexts(c) ==
    IF c = "/deploy" THEN SeqsUpTo(TextAlphabet, MaxTextLen) ELSE {<<>>, <<"7">>}

CommandData ==
    {[NoData EXCEPT !.kind = "command", !.id = x.c, !.text = x.t, !.hasUrl = x.u]
        : x \in UNION {[c : {c}, t : CommandTexts(c), u : BOOLEAN]
                        : c \in CommandIds \cup {"/frobnicate", "/BUG"}}}

\* A click: on a button of a delivered message (src), or a payload somebody
\* wrote, with no value, a number or a broken JSON text as its value.
ClickOn(b, u) ==
    [NoData EXCEPT !.kind = "action", !.id = b.action_id, !.hasValue = b.hasValue,
                   !.value = b.value, !.hasUrl = u]

WrittenButtons ==
    {Button(a, v.has, v.s, <<>>)
        : a \in ActionIds \cup {"frobnicate"},
          v \in {[has |-> FALSE, s |-> <<>>], [has |-> TRUE, s |-> <<"7">>],
                 [has |-> TRUE, s |-> <<"{">>]}}

ChatData ==
    {[NoData EXCEPT !.kind = "chat", !.id = ty, !.chanType = ct, !.bot = b,
                    !.text = <<"<@U1>", " ", "h">>, !.thread = th]
        : ty \in {"app_mention", "message"}, ct \in {"im", "channel"},
          b \in BOOLEAN, th \in {"t1", "t2"}}
        \cup {[NoData EXCEPT !.kind = "challenge", !.text = c] : c \in {<<>>, <<"c">>}}
        \cup {NoData}

\* The headers of a request: signed by Slack just now ("valid"), without
\* headers, signed with another secret, with a signature one character short,
\* or signed by Slack more than ReplayWindow ago.
AuthCases == {"valid", "none", "forged", "short", "stale"}

AuthTs(a, t) ==
    CASE a = "none" -> TsUndefined
      [] a = "stale" -> TsInt(t - ReplayWindow - 1)
      [] OTHER -> TsInt(t)

AuthSig(a, t, raw) ==
    CASE a = "none" -> SigUndefined
      [] a = "forged" -> Sign(OtherSecret, AuthTs(a, t), raw)
      [] a = "short" ->
            Tamper(Sign(SlackSecret, AuthTs(a, t), raw), [how |-> "truncate", at |-> 0])
      [] OTHER -> Sign(SlackSecret, AuthTs(a, t), raw)

Request(endpoint, method, a, enc, form, d, src, t) ==
    [endpoint |-> endpoint, method |-> method, ts |-> AuthTs(a, t),
     sig |-> AuthSig(a, t, [enc |-> enc, data |-> d]), enc |-> enc, form |-> form,
     data |-> d, src |-> src]

NoRouterRequest == Request("", "", "none", "", "", NoData, NoButton, 0)

\* The payloads an endpoint is sent, each with the button it comes from.
Payloads(endpoint, btns) ==
    CASE endpoint = "commands" -> {[d |-> d, src |-> NoButton] : d \in CommandData}
      [] endpoint = "actions" ->
            {[d |-> ClickOn(b, u), src |-> b] : b \in btns, u \in BOOLEAN}
                \cup {[d |-> ClickOn(b, u), src |-> NoButton]
                        : b \in WrittenButtons, u \in BOOLEAN}
                \cup {[d |-> NoData, src |-> NoButton]}
      [] endpoint = "claude" -> {[d |-> d, src |-> NoButton] : d \in ChatData}

Endpoints == {"commands", "actions", "claude"}

Representative(endpoint) ==
    CASE endpoint = "commands" ->
            [NoData EXCEPT !.kind = "command", !.id = "/deploy", !.hasUrl = TRUE]
      [] endpoint = "actions" -> ClickOn(Button("cancel_deploy", FALSE, <<>>, <<>>), TRUE)
      [] endpoint = "claude" ->
            [NoData EXCEPT !.kind = "chat", !.id = "app_mention", !.chanType = "channel",
                           !.text = <<"<@U1>", " ", "h">>, !.thread = "t1"]

\* Every payload arrives signed by Slack in each encoding and body form; the
\* other headers and methods are tried with one payload of each endpoint.
Requests(t, btns) ==
    UNION {
        {Request(ep, "POST", "valid", enc, form, p.d, p.src, t)
            : enc \in Encodings, form \in BodyForms, p \in Payloads(ep, btns)}
        \cup {Request(ep, "POST", a, enc, form, Representative(ep), NoButton, t)
                : a \in AuthCases \ {"valid"}, enc \in Encodings, form \in BodyForms}
        \cup {Request(ep, "GET", "none", "json", "object", NoData, NoButton, t)}
        : ep \in Endpoints}

\* ------------------------------------------------------------ the log

\* body: the JSON body of a response, where the handler takes it from the
\* request.
Resp(status) ==
    [t |-> "response", status |-> status, call |-> NoCall, outcome |-> "", body |-> <<>>]
Called(call, o) ==
    [t |-> "call", status |-> 0, call |-> call, outcome |-> o, body |-> <<>>]
\* A POST to response_url, of the message with the given tag.
CallbackPost(tag) == [kind |-> "callback", op |-> tag, ref |-> <<>>]
ChatPost == [kind |-> "chat", op |-> "postMessage", ref |-> <<>>]
LlmCall == [kind |-> "llm", op |-> "messages", ref |-> <<>>]

NoEv == [endpoint |-> "", d |-> NoData, src |-> NoButton]
NoHistory == [shared |-> FALSE, key |-> "", msgs |-> <<>>]

\* ------------------------------------- slack-notify: the message builders
\* A property of the data bag of a notification: undefined (has = FALSE), a
\* number (isNum, its digits in val) or a string.
JsUndefined == [has |-> FALSE, isNum |-> FALSE, val |-> <<>>]
JsNumber(ds) == [has |-> TRUE, isNum |-> TRUE, val |-> ds]
JsString(cs) == [has |-> TRUE, isNum |-> FALSE, val |-> cs]

\* JSON.stringify({[key]: v}): a property that is undefined is left out.
ValueFields(key, v) == IF v.has THEN <<Field(key, v.isNum, v.val)>> ELSE <<>>

\* The `data` of a notification: has = FALSE when it is undefined (or null);
\* topIssues is "undefined", "array" or "string".
DataBag(has, issueNumber, prNumber, id, topIssues) ==
    [has |-> has, issueNumber |-> issueNumber, prNumber |-> prNumber, id |-> id,
     topIssues |-> topIssues]

NoDataBag == DataBag(FALSE, JsUndefined, JsUndefined, JsUndefined, "undefined")
EmptyDataBag == DataBag(TRUE, JsUndefined, JsUndefined, JsUndefined, "undefined")

\* Each builder reads properties of `data`: a TypeError when data is
\* undefined.
buildBugMessage(data) ==
    IF ~data.has THEN Throw
    ELSE Ret([Msg("bug") EXCEPT
                !.btns = {Button("trigger_ai_analysis", TRUE,
                                 JSONstringify(ValueFields("issueNumber", data.issueNumber)),
                                 <<>>)}])

buildFeatureMessage(data) ==
    IF ~data.has THEN Throw
    ELSE Ret([Msg("feature") EXCEPT
                !.btns = {Button("add_to_roadmap", TRUE,
                                 JSONstringify(ValueFields("issueNumber", data.issueNumber)),
                                 <<>>)}])

buildDeploymentMessage(data) ==
    IF ~data.has THEN Throw ELSE Ret(Msg("deployment"))

\* data.topIssues.map(...) when data.topIssues is truthy: a string has no map
buildDigestMessage(data) ==
    IF ~data.has \/ data.topIssues = "string" THEN Throw ELSE Ret(Msg("digest"))

buildIncidentMessage(data) ==
    IF ~data.has THEN Throw
    ELSE Ret([Msg("incident") EXCEPT
                !.btns = {Button("acknowledge_incident", TRUE,
                                 JSONstringify(ValueFields("incidentId", data.id)),
                                 <<>>)}])

buildPRMessage(data) ==
    IF ~data.has THEN Throw
    ELSE Ret([Msg("pr") EXCEPT
                !.btns = {Button("approve_merge_pr", TRUE,
                                 JSONstringify(ValueFields("prNumber", data.prNumber)),
                                 <<>>),
                          Button("reject_pr", TRUE,
                                 JSONstringify(ValueFields("prNumber", data.prNumber)),
                                 <<>>)}])

NotifyKinds == {"bug", "feature", "deployment", "digest", "incident", "pr"}

\* builders[type] and webhooks[type] of a name that Object.prototype defines:
\* "constructor" is a function (Object), "__proto__" is Object.prototype, an
\* object that cannot be called.
InheritedProps == {"constructor", "__proto__"}

\* buildMessage(type, data)
buildMessage(type, data) ==
    CASE type = "bug" -> buildBugMessage(data)
      [] type = "feature" -> buildFeatureMessage(data)
      [] type = "deployment" -> buildDeploymentMessage(data)
      [] type = "digest" -> buildDigestMessage(data)
      [] type = "incident" -> buildIncidentMessage(data)
      [] type = "pr" -> buildPRMessage(data)
      \* Object(data): an object, whatever data is
      [] type = "constructor" -> Ret(Msg("object"))
      \* builder is not a function
      [] type = "__proto__" -> Throw
      [] OTHER -> Ret(Msg("fallback"))

\* report-error.js notifySlack(webhookUrl, errorGroup, issue): the message,
\* with value: String(issue.number)
notifySlack(issueNumber) ==
    [Msg("auto_detected_bug") EXCEPT
        !.btns = {Button("trigger_ai_analysis", TRUE, issueNumber, <<>>)}]

\* submit-feedback notifySlack(webhookUrl, feedback, issue): its only button
\* is a link.
notifySlackFeedback(issueNumber) == Msg("feedback")

\* ------------------------- report-error, submit-feedback and slack-notify

\* process.env: the tracker credentials and the webhooks, set (TRUE) or not.
\* channelWebhooks stands for SLACK_BUGS_WEBHOOK, SLACK_FEATURES_WEBHOOK and
\* SLACK_DEPLOYMENTS_WEBHOOK.
WebEnv(token, owner, repo, webhook, channelWebhooks) ==
    [token |-> token, owner |-> owner, repo |-> repo, webhook |-> webhook,
     channelWebhooks |-> channelWebhooks]

WebEnvs ==
    {WebEnv(TRUE, TRUE, TRUE, w, FALSE) : w \in BOOLEAN}
    \cup {WebEnv(TRUE, TRUE, TRUE, FALSE, TRUE),
          WebEnv(FALSE, TRUE, TRUE, TRUE, FALSE),
          WebEnv(TRUE, FALSE, TRUE, TRUE, FALSE),
          WebEnv(TRUE, TRUE, FALSE, TRUE, FALSE)}

\* One reported error.
Err(type, message, severity) == [type |-> type, message |-> message, severity |-> severity]

ErrorTypes == {<<"a">>, <<"a", ":", "a">>}
ErrorMessages == {<<"a">>, <<"a", ":", "a">>}
Severities == {"critical", "error", "warning", "low", "medium"}

ErrorValues == {Err(t, m, v) : t \in ErrorTypes, m \in ErrorMessages, v \in Severities}

\* The `errors` property of the body: k is "undefined", "array", or "string"
\* (a value that is truthy and not an array).
ErrorsProp(k, list) == [k |-> k, list |-> list]

\* A request body: has = FALSE when req.body is undefined.  errors and
\* environment are read by report-error, title and type by submit-feedback
\* (type also by slack-notify), data by slack-notify.
WebBody(has, errors, environment, title, type, severity, data) ==
    [has |-> has, errors |-> errors, environment |-> environment, title |-> title,
     type |-> type, severity |-> severity, data |-> data]

NoWebBody == WebBody(FALSE, ErrorsProp("undefined", <<>>), FALSE, <<>>, "", "", NoDataBag)

WebRequest(endpoint, method, body) == [endpoint |-> endpoint, method |-> method, body |-> body]

NoWebRequest == WebRequest("", "", NoWebBody)

ReportBodies ==
    {NoWebBody}
    \cup {[NoWebBody EXCEPT !.has = TRUE, !.errors = e, !.environment = TRUE]
            : e \in {ErrorsProp("undefined", <<>>), ErrorsProp("string", <<>>)}}
    \cup {[NoWebBody EXCEPT !.has = TRUE, !.errors = ErrorsProp("array", l), !.environment = v]
            : l \in SeqsUpTo(ErrorValues, MaxErrors), v \in BOOLEAN}

FeedbackBodies ==
    {NoWebBody}
    \cup {[NoWebBody EXCEPT !.has = TRUE, !.title = t, !.type = ty, !.severity = v]
            : t \in {<<>>, <<"t">>}, ty \in {"", "bug", "feature"},
              v \in {"low", "high", "critical"}}

NotifyTypes == NotifyKinds \cup InheritedProps \cup {"", "frobnicate"}

NotifyBags ==
    {NoDataBag, EmptyDataBag,
     DataBag(TRUE, JsNumber(<<"7">>), JsNumber(<<"5">>), JsString(<<"i">>), "array"),
     DataBag(TRUE, JsUndefined, JsUndefined, JsUndefined, "string")}

NotifyBodies ==
    {NoWebBody}
    \cup {[NoWebBody EXCEPT !.has = TRUE, !.type = ty, !.data = d]
            : ty \in NotifyTypes, d \in NotifyBags}

WebRequests ==
    {WebRequest("report-error", "POST", b) : b \in ReportBodies}
    \cup {WebRequest("submit-feedback", "POST", b) : b \in FeedbackBodies}
    \cup {WebRequest("slack-notify", "POST", b) : b \in NotifyBodies}
    \cup {WebRequest(ep, m, NoWebBody)
            : ep \in {"report-error", "submit-feedback", "slack-notify"},
              m \in {"OPTIONS", "GET"}}

\* `${err.type}:${err.message}`
GroupKey(err) == err.type \o <<":">> \o err.message

\* groupErrors(errors): the groups in the order their keys were first seen;
\* a group is the first error of its key, with a count.
RECURSIVE GroupInto(_, _)
GroupInto(groups, errors) ==
    IF errors = <<>> THEN groups
    ELSE LET key == GroupKey(Head(errors))
         IN  IF \E i \in 1..Len(groups) : groups[i].key = key
             THEN GroupInto([i \in 1..Len(groups) |->
                                IF groups[i].key = key
                                THEN [groups[i] EXCEPT !.count = @ + 1]
                                ELSE groups[i]],
                            Tail(errors))
             ELSE GroupInto(Append(groups, [key |-> key, err |-> Head(errors), count |-> 1]),
                            Tail(errors))

groupErrors(errors) == GroupInto(<<>>, errors)

\* The one thing submit-feedback files an issue for.
FeedbackGroup(body) ==
    [key |-> body.title, err |-> Err(<<>>, body.title, body.severity), count |-> 1]

\* report-error.js createGitHubIssue: the labels
ErrorLabels(group) ==
    {"bug", "auto-detected"}
        \cup (IF group.err.severity \in {"error", "critical"} THEN {"priority:high"} ELSE {})

\* createBugIssue, createFeatureIssue: the labels
createBugIssue(feedback) ==
    {"bug", "user-reported"}
        \cup (IF feedback.severity \in {"high", "critical"} THEN {"priority:high"} ELSE {})

createFeatureIssue(feedback) == {"enhancement", "user-requested"}

\* A createGitHubIssue that returns the tracker's answer whatever its status.
createGitHubIssueLenient(o, n) ==
    IF o = "network_error" THEN [thrown |-> TRUE, number |-> 0]
    ELSE [thrown |-> FALSE, number |-> IF Ok(o) THEN n ELSE 0]

\* createGitHubIssue: the fetch had outcome o, and the tracker numbered the
\* issue n.  if (!response.ok) throw; return response.json()
createGitHubIssue(o, n) ==
    IF Ok(o) THEN [thrown |-> FALSE, number |-> n] ELSE [thrown |-> TRUE, number |-> 0]

\* getWebhookUrl(type): "" when no webhook is set; "inherited" when
\* webhooks[type] is a property of Object.prototype, which is no URL.
getWebhookUrl(type, e) ==
    IF type \in {"bug", "feature", "deployment"} /\ e.channelWebhooks THEN "channel"
    ELSE IF type \in InheritedProps THEN "inherited"
    ELSE IF e.webhook THEN "default" ELSE ""

\* The log of a handler: the response it wrote and the calls it made.
WResp(status) ==
    [t |-> "response", status |-> status, op |-> "", type |-> <<>>, message |-> <<>>,
     count |-> 0, labels |-> {}, number |-> 0, outcome |-> ""]

WCall(op, group, labels, number, o) ==
    [t |-> "call", status |-> 0, op |-> op, type |-> group.err.type,
     message |-> group.err.message, count |-> group.count, labels |-> labels,
     number |-> number, outcome |-> o]

NoGroup == [key |-> <<>>, err |-> Err(<<>>, <<>>, ""), count |-> 0]

WebIdle ==
    /\ wenv = WebEnv(FALSE, FALSE, FALSE, FALSE, FALSE)
    /\ wreq = NoWebRequest
    /\ wpc = "idle"
    /\ wlog = <<>>
    /\ grouped = <<>>
    /\ issue = 0
    /\ wmsg = Ret(NoMsg)

\* ------------------------------ the buttons the producers emit, clicked

JsValues ==
    {JsUndefined, JsNumber(<<"7">>), JsNumber(<<"1", "2">>), JsString(<<"7">>),
     JsString(<<"a", "\"">>), JsString(<<"\\", "b">>)}

UserNames == {UserName, <<"b", "\"">>}

\* What a producer is given.  producer: "report-error", "submit-feedback",
\* "slack-notify" or a slash command; type, data: of a notification; n: the
\* number the tracker gave the issue or pull request; text, user: of a
\* slash command.
Produce(producer, type, data, n, text, user) ==
    [producer |-> producer, type |-> type, data |-> data, n |-> n, text |-> text,
     user |-> user]

NoProduce == Produce("", "", NoDataBag, <<>>, <<>>, <<>>)

ProducerInputs ==
    {Produce(pr, "", NoDataBag, n, <<>>, <<>>)
        : pr \in {"report-error", "submit-feedback"}, n \in {<<"7">>, <<"1", "2">>}}
    \cup {Produce("slack-notify", "bug", DataBag(TRUE, v, JsUndefined, JsUndefined, "undefined"),
                  <<>>, <<>>, <<>>) : v \in JsValues}
    \cup {Produce("slack-notify", "feature",
                  DataBag(TRUE, v, JsUndefined, JsUndefined, "undefined"),
                  <<>>, <<>>, <<>>) : v \in JsValues}
    \cup {Produce("slack-notify", "incident",
                  DataBag(TRUE, JsUndefined, JsUndefined, v, "undefined"),
                  <<>>, <<>>, <<>>) : v \in JsValues}
    \cup {Produce("slack-notify", "pr", DataBag(TRUE, JsUndefined, v, JsUndefined, "undefined"),
                  <<>>, <<>>, <<>>) : v \in JsValues}
    \cup {Produce(c, "", NoDataBag, <<>>, <<"7">>, u)
            : c \in {"/bug", "/feature", "/approve-pr"}, u \in UserNames}
    \cup {Produce("/deploy", "", NoDataBag, <<>>, t, u)
            : t \in SeqsUpTo(TextAlphabet, MaxTextLen), u \in UserNames}

\* The message the producer builds, once its own remote calls succeeded.
ProducedMessage(i) ==
    CASE i.producer = "report-error" -> notifySlack(i.n)
      [] i.producer = "submit-feedback" -> notifySlackFeedback(i.n)
      [] i.producer = "slack-notify" -> buildMessage(i.type, i.data).msg
      [] i.producer = "/bug" -> handleBugCommand(i.text, i.user, 1, "ok").msg
      [] i.producer = "/feature" -> handleFeatureCommand(i.text, i.user, 1, "ok").msg
      [] i.producer = "/approve-pr" -> handleApprovePRCommand(i.text, i.user, 1, "ok").msg
      [] i.producer = "/deploy" -> handleDeployCommand(i.text, i.user, 0, "none").msg

\* The identifier the producer put into the button: the issue number, the
\* pull request number, the branch or the incident id.
EncodedId(i, b) ==
    CASE i.producer = "report-error" -> i.n
      [] i.producer = "slack-notify" /\ i.type \in {"bug", "feature"} -> i.data.issueNumber.val
      [] i.producer = "slack-notify" /\ i.type = "incident" -> i.data.id.val
      [] i.producer = "slack-notify" /\ i.type = "pr" -> i.data.prNumber.val
      [] i.producer \in {"/bug", "/feature"} -> IssueNumber
      [] i.producer = "/approve-pr" -> PrNumber
      [] i.producer = "/deploy" -> DeployBranch(i.text)
      [] OTHER -> <<>>

NoParsed == [btn |-> NoButton, id |-> <<>>, step |-> Ret(NoMsg)]

\* truncate has not been called.
NoTruncated == [called |-> FALSE, str |-> <<>>]

TruncIdle == tin = [str |-> <<>>, maxLen |-> 0] /\ tout = NoTruncated

\* let batchTimer = null
NoTimer == [pending |-> FALSE, due |-> 0]

LoggerIdle ==
    /\ config = [maxErrorsPerMinute |-> 0, batchInterval |-> 0]
    /\ clock = 0
    /\ errorQueue = <<>>
    /\ errorCount = 0
    /\ lastErrorReset = 0
    /\ batchTimer = NoTimer
    /\ sentErrors = <<>>
    /\ accepted = <<>>
    /\ nCaptured = 0

\* The widget as createWidget leaves it.
WidgetIdle ==
    /\ widgetOpen = FALSE
    /\ view = "bug"
    /\ titles = [bug |-> FALSE, feature |-> FALSE]
    /\ disabled = [bug |-> FALSE, feature |-> FALSE]
    /\ successTimers = 0
    /\ resetTimers = 0
    /\ nSubmits = 0

RaceIdle == handlers = <<>> /\ arrays = <<>> /\ storedRefs = <<>>

NoAnalysis == [fix |-> "undefined", changes |-> <<>>]

AnalyzerIdle ==
    /\ analysis = NoAnalysis
    /\ webhookUrl = FALSE
    /\ apc = "idle"
    /\ changeIdx = 0
    /\ alog = <<>>

ClientIdle ==
    TruncIdle /\ LoggerIdle /\ WidgetIdle /\ postText = <<>> /\ RaceIdle /\ AnalyzerIdle

Aside ==
    /\ pin = NoProduce
    /\ emitted = {}
    /\ parsed = NoParsed
    /\ WebIdle
    /\ ClientIdle

\* ------------------------------------------------------------------ Init

Envs ==
    {[signingSecret |-> s, apiKey |-> TRUE, botToken |-> TRUE]
        : s \in {NoSecret, SlackSecret}}
    \cup {[signingSecret |-> NoSecret, apiKey |-> FALSE, botToken |-> TRUE],
          [signingSecret |-> NoSecret, apiKey |-> TRUE, botToken |-> FALSE]}

Idle ==
    /\ req = NoRouterRequest
    /\ pc = "idle"
    /\ ev = NoEv
    /\ verified = "none"
    /\ phase = "none"
    /\ log = <<>>
    /\ pending = NoCall
    /\ result = NoMsg
    /\ step = 0
    /\ history = NoHistory
    /\ chunks = <<>>
    /\ buttons = {}
    /\ conversations = <<>>
    /\ nEvents = 0
    /\ said = <<>>

\* The api handlers are at rest.
ServerIdle ==
    /\ env = [signingSecret |-> NoSecret, apiKey |-> TRUE, botToken |-> TRUE]
    /\ now = ClockValue
    /\ Idle
    /\ vreq = NoRequest
    /\ vres = "none"
    /\ pin = NoProduce
    /\ emitted = {}
    /\ parsed = NoParsed
    /\ WebIdle

serverVars == <<env, now, vreq, vres, pin, emitted, parsed, webVars, routerVars>>

Init ==
    /\ env \in Envs
    /\ now = ClockValue
    /\ Idle
    /\ vreq = NoRequest
    /\ vres = "none"
    /\ Aside

\* --------------------------------------------------------------- actions

\* The platform invokes a handler with a request.
Arrive ==
    /\ pc = "idle"
    /\ nEvents < MaxEvents
    /\ req' \in Requests(now, buttons)
    /\ pc' = "received"
    /\ phase' = "received"
    /\ nEvents' = nEvents + 1
    /\ UNCHANGED <<env, now, ev, verified, log, pending, result, step, history, chunks,
                   buttons, conversations, said, vreq, vres, otherVars>>

\* The invocation is over: the handler returned or its promise rejected.
\* What it held is gone; the process (the cache) and the delivered messages
\* stay.
Return ==
    /\ pc \in {"done", "raised"}
    /\ pc' = "idle"
    /\ phase' = "none"
    /\ ev' = NoEv
    /\ verified' = "none"
    /\ log' = <<>>
    /\ pending' = NoCall
    /\ result' = NoMsg
    /\ step' = 0
    /\ history' = NoHistory
    /\ chunks' = <<>>
    /\ UNCHANGED <<env, now, req, buttons, conversations, nEvents, said, vreq, vres, otherVars>>

EntryOf(r, e, t) ==
    CASE r.endpoint = "commands" -> CommandsEntry(r, e, t)
      [] r.endpoint = "actions" -> ActionsEntry(r, e, t)
      [] r.endpoint = "claude" -> ClaudeEntry(r, e, t)

\* The handler runs up to its acknowledgement (or its early return).
Enter ==
    /\ pc = "received"
    /\ LET x == EntryOf(req, env, now)
       IN  /\ log' = IF x.status > 0 THEN <<[Resp(x.status) EXCEPT !.body = x.body]>>
                     ELSE <<>>
           /\ verified' = x.verified
           /\ pc' = x.next
           /\ phase' = IF x.next = "route" THEN "acknowledged" ELSE phase
           /\ ev' = [endpoint |-> req.endpoint, d |-> x.d, src |-> req.src]
    /\ req' = NoRouterRequest
    /\ UNCHANGED <<env, now, pending, result, step, history, chunks, buttons,
                   conversations, nEvents, said, vreq, vres, otherVars>>

StepOf(v, e, k, o) ==
    IF v.endpoint = "commands" THEN CommandStep(v.d, e.apiKey, k, o)
    ELSE ActionStep(v.d, k, o)

\* The handler goes on to x: to its next await, to the delivery of its
\* message, or to the catch block.
Advance(x) ==
    /\ pc' = CASE x.type = "call" -> "await"
               [] x.type = "return" -> "deliver"
               [] x.type = "throw" -> "catch"
    /\ pending' = x.call
    /\ result' = x.msg
    /\ phase' = "processing"

\* slack-commands.js lines 41-67, slack-actions.js lines 47-79, up to the
\* first await.
Route ==
    /\ pc = "route"
    /\ ev.endpoint \in {"commands", "actions"}
    /\ IF ev.endpoint = "actions" /\ ev.d.kind # "action"
       THEN \* if (!action) return
            /\ pc' = "done"
            /\ UNCHANGED <<pending, result, phase>>
       ELSE Advance(StepOf(ev, env, 0, "none"))
    /\ UNCHANGED <<env, now, req, ev, verified, log, step, history, chunks, buttons,
                   conversations, nEvents, said, vreq, vres, otherVars>>

\* The awaited tracker or LLM call completes; the handler goes on.
Complete(o) ==
    /\ pc = "await"
    /\ o \in Outcomes(pending)
    /\ log' = Append(log, Called(pending, o))
    /\ step' = step + 1
    /\ Advance(StepOf(ev, env, step + 1, o))
    /\ UNCHANGED <<env, now, req, ev, verified, history, chunks, buttons,
                   conversations, nEvents, said, vreq, vres, otherVars>>

\* if (response_url) await fetch(response_url, ... result): a rejected fetch
\* throws into the catch block.
Deliver(o) ==
    /\ pc = "deliver"
    /\ IF ev.d.hasUrl
       THEN /\ log' = Append(log, Called(CallbackPost(result.tag), o))
            /\ IF o = "network_error"
               THEN /\ pc' = "catch"
                    /\ UNCHANGED <<phase, buttons>>
               ELSE /\ pc' = "done"
                    /\ phase' = "responded"
                    /\ buttons' = IF o = "ok" THEN buttons \cup result.btns ELSE buttons
       ELSE /\ o = "ok"
            /\ pc' = "done"
            /\ phase' = "responded"
            /\ UNCHANGED <<log, buttons>>
    /\ UNCHANGED <<env, now, req, ev, verified, pending, result, step, history, chunks,
                   conversations, nEvents, said, vreq, vres, otherVars>>

\* The catch block: if (response_url) await fetch(response_url, ... error
\* text), outside any try.
Catch(o) ==
    /\ pc = "catch"
    /\ phase' = "failed"
    /\ result' = Msg("error")
    /\ IF ev.d.hasUrl
       THEN /\ log' = Append(log, Called(CallbackPost("error"), o))
            /\ pc' = IF o = "network_error" THEN "raised" ELSE "done"
       ELSE /\ o = "ok"
            /\ pc' = "done"
            /\ UNCHANGED log
    /\ UNCHANGED <<env, now, req, ev, verified, pending, step, history, chunks, buttons,
                   conversations, nEvents, said, vreq, vres, otherVars>>

\* ------------------------------------------------- slack-claude.js handler

\* `said` keeps, for each conversation key, every message the handler pushed
\* onto a history of that key (msgs), and how many of them were pushed onto
\* the array now stored under the key (live; 0 when none is stored).
SaidOf(s, key) ==
    IF \E i \in 1..Len(s) : s[i].key = key
    THEN s[CHOOSE i \in 1..Len(s) : s[i].key = key]
    ELSE [key |-> key, msgs |-> <<>>, live |-> 0]

SaidSet(s, key, msgs, live) ==
    IF \E i \in 1..Len(s) : s[i].key = key
    THEN [i \in 1..Len(s) |->
            IF s[i].key = key THEN [key |-> key, msgs |-> msgs, live |-> live] ELSE s[i]]
    ELSE Append(s, [key |-> key, msgs |-> msgs, live |-> live])

\* history.push(m): onto the stored array of the key (stored), or onto an
\* array of the handler's own.
SaidPush(s, key, m, stored) ==
    SaidSet(s, key, Append(SaidOf(s, key).msgs, m),
            SaidOf(s, key).live + (IF stored THEN 1 ELSE 0))

\* The keys cleanupConversations deleted hold no array any more.
SaidKept(s, c) ==
    [i \in 1..Len(s) |-> IF HasKey(c, s[i].key) THEN s[i] ELSE [s[i] EXCEPT !.live = 0]]

\* The array `history` names: the one stored in the Map when the key was
\* there (conversations.get returned it), else the handler's own.
HistoryMsgs(c, h) == IF h.shared THEN CacheGet(c, h.key) ELSE h.msgs

\* history.push({role: 'assistant', ...}); conversations.set(contextKey,
\* history); cleanupConversations()
SaveReply(c, h, response) ==
    cleanupConversations(
        CacheSet(c, h.key,
                 Append(HistoryMsgs(c, h), [role |-> "assistant", content |-> response])))

\* postToSlack, up to its first post
StartPost(response) ==
    LET cs == IF env.botToken THEN SplitChunks(response) ELSE <<>>
    IN  /\ chunks' = cs
        /\ pc' = IF cs = <<>> THEN "done" ELSE "post_chat"
        /\ phase' = IF cs = <<>> THEN "responded" ELSE "processing"

\* Lines 43-68: the event filter, the user message pushed to the history,
\* callClaude up to its fetch (it returns a fixed text, without a fetch, when
\* no API key is set).
RouteChat ==
    /\ pc = "route"
    /\ ev.endpoint = "claude"
    /\ IF \/ ev.d.kind # "chat"
          \/ (ev.d.id # "app_mention" /\ ev.d.chanType # "im")
          \/ ev.d.bot
       THEN /\ pc' = "done"
            /\ UNCHANGED <<phase, history, pending, conversations, said>>
       ELSE LET text == Trim(StripMentions(ev.d.text))
                key == ev.d.thread
                m == [role |-> "user", content |-> text]
            IN  /\ IF HasKey(conversations, key)
                   THEN /\ history' = [shared |-> TRUE, key |-> key, msgs |-> <<>>]
                        /\ conversations' =
                                CacheSet(conversations, key,
                                         PushTrim(CacheGet(conversations, key), m))
                   ELSE /\ history' = [shared |-> FALSE, key |-> key,
                                        msgs |-> PushTrim(<<>>, m)]
                        /\ UNCHANGED conversations
                /\ said' = SaidPush(said, key, m, HasKey(conversations, key))
                /\ pending' = IF env.apiKey THEN LlmCall ELSE NoCall
                /\ pc' = "await_llm"
                /\ phase' = "processing"
    /\ UNCHANGED <<env, now, req, ev, verified, log, result, step, chunks, buttons,
                   nEvents, vreq, vres, otherVars>>

\* callClaude returns; lines 70-78 up to the first post.  A rejected fetch
\* throws into the handler's catch, which logs.
CompleteLlm(o) ==
    /\ pc = "await_llm"
    /\ o \in {"ok", "http_error", "network_error"}
    /\ pending = NoCall => o = "ok"
    /\ log' = IF pending = NoCall THEN log ELSE Append(log, Called(pending, o))
    /\ IF o = "network_error"
       THEN /\ pc' = "done"
            /\ phase' = "failed"
            /\ UNCHANGED <<chunks, conversations, said>>
       ELSE LET response == IF pending = NoCall THEN NotConfiguredText
                            ELSE IF o = "ok" THEN ReplyText ELSE SorryText
                reply == [role |-> "assistant", content |-> response]
                pushed == Len(HistoryMsgs(conversations, history)) + 1
            IN  /\ conversations' = SaveReply(conversations, history, response)
                /\ said' = SaidKept(
                                SaidSet(said, history.key,
                                        Append(SaidOf(said, history.key).msgs, reply),
                                        IF history.shared
                                        THEN SaidOf(said, history.key).live + 1
                                        ELSE pushed),
                                conversations')
                /\ StartPost(response)
    /\ UNCHANGED <<env, now, req, ev, verified, pending, result, step, history, buttons,
                   nEvents, vreq, vres, otherVars>>

\* postToSlack posts the next chunk.
PostChunk(o) ==
    /\ pc = "post_chat"
    /\ o \in {"ok", "http_error", "network_error"}
    /\ log' = Append(log, [Called(ChatPost, o) EXCEPT !.body = Head(chunks)])
    /\ IF o = "network_error"
       THEN /\ pc' = "done"
            /\ phase' = "failed"
            /\ UNCHANGED chunks
       ELSE /\ chunks' = Tail(chunks)
            /\ pc' = IF Tail(chunks) = <<>> THEN "done" ELSE "post_chat"
            /\ phase' = IF Tail(chunks) = <<>> THEN "responded" ELSE "processing"
    /\ UNCHANGED <<env, now, req, ev, verified, pending, result, step, history, buttons,
                   conversations, nEvents, said, vreq, vres, otherVars>>

\* ------------------------------------------------------------------ Spec

Next ==
    \/ Arrive
    \/ Enter
    \/ Route
    \/ \E o \in {"ok", "ok_empty", "http_error", "network_error"} : Complete(o)
    \/ \E o \in {"ok", "http_error", "network_error"} : Deliver(o)
    \/ \E o \in {"ok", "http_error", "network_error"} : Catch(o)
    \/ RouteChat
    \/ \E o \in {"ok", "http_error", "network_error"} : CompleteLlm(o)
    \/ \E o \in {"ok", "http_error", "network_error"} : PostChunk(o)
    \/ Return

Spec == Init /\ [][Next]_vars

\* ------------------------------------------- the conversation cache at work
\* The chat handler alone, over many events.  The text of an event names its
\* place among the messages of its thread, so that the order of the entries
\* of a history can be told.

ChatEvent(th, n) ==
    [NoData EXCEPT !.kind = "chat", !.id = "app_mention", !.chanType = "channel",
                   !.text = <<"<@U1>", " ", ToString(n)>>, !.thread = th]

ChatRequest(th, t) ==
    Request("claude", "POST", "valid", "json", "object",
            ChatEvent(th, Len(SaidOf(said, th).msgs) + 1), NoButton, t)

\* The chat events handled so far.
RECURSIVE Turns(_)
Turns(s) ==
    IF s = <<>> THEN 0
    ELSE Len(SelectSeq(Head(s).msgs, LAMBDA m : m.role = "user")) + Turns(Tail(s))

\* The LLM calls that failed so far: a reply that is the apology, or a user
\* message that was never replied to.
LlmFaultsOf(msgs) ==
    Cardinality({i \in 1..Len(msgs) :
                    \/ msgs[i] = [role |-> "assistant", content |-> SorryText]
                    \/ /\ msgs[i].role = "user"
                       /\ i < Len(msgs) => msgs[i + 1].role = "user"})

RECURSIVE LlmFaults(_)
LlmFaults(s) == IF s = <<>> THEN 0 ELSE LlmFaultsOf(Head(s).msgs) + LlmFaults(Tail(s))

ChatThreads == {"t1", "t2"}

InitCache ==
    /\ env = [signingSecret |-> SlackSecret, apiKey |-> TRUE, botToken |-> TRUE]
    /\ now = ClockValue
    /\ Idle
    /\ vreq = NoRequest
    /\ vres = "none"
    /\ Aside

\* A chat event of one of the threads arrives.
ArriveTurn ==
    /\ pc = "idle"
    /\ Turns(said) < MaxTurns
    /\ \E th \in ChatThreads : req' = ChatRequest(th, now)
    /\ pc' = "received"
    /\ phase' = "received"
    /\ nEvents' = nEvents + 1
    /\ UNCHANGED <<env, now, ev, verified, log, pending, result, step, history, chunks,
                   buttons, conversations, said, vreq, vres, otherVars>>

\* The LLM call completes; it fails MaxLlmFaults times at most (the message
\* awaiting its reply counts as unanswered until then).
CompleteLlmWithin(o) ==
    /\ o # "ok" => LlmFaults(said) - 1 < MaxLlmFaults
    /\ CompleteLlm(o)

NextCache ==
    \/ ArriveTurn
    \/ Enter
    \/ RouteChat
    \/ \E o \in {"ok", "http_error", "network_error"} : CompleteLlmWithin(o)
    \/ \E o \in {"ok", "http_error", "network_error"} : PostChunk(o)
    \/ Return

SpecCache == InitCache /\ [][NextCache]_vars

\* The cache's eviction: no API key is set (callClaude returns its fixed
\* text), and each event opens a thread, or comes back to the first thread
\* once the cache dropped it.
InitEvict ==
    /\ env = [signingSecret |-> NoSecret, apiKey |-> FALSE, botToken |-> TRUE]
    /\ now = ClockValue
    /\ Idle
    /\ vreq = NoRequest
    /\ vres = "none"
    /\ Aside

ArriveThread ==
    /\ pc = "idle"
    /\ \/ /\ Len(said) < MaxThreads
          /\ req' = ChatRequest(ToString(Len(said) + 1), now)
       \/ /\ Len(said) > 0
          /\ ~HasKey(conversations, ToString(1))
          /\ req' = ChatRequest(ToString(1), now)
    /\ pc' = "received"
    /\ phase' = "received"
    /\ nEvents' = nEvents + 1
    /\ UNCHANGED <<env, now, ev, verified, log, pending, result, step, history, chunks,
                   buttons, conversations, said, vreq, vres, otherVars>>

NextEvict ==
    \/ ArriveThread
    \/ Enter
    \/ RouteChat
    \/ \E o \in {"ok", "http_error", "network_error"} : CompleteLlm(o)
    \/ \E o \in {"ok", "http_error", "network_error"} : PostChunk(o)
    \/ Return

SpecEvict == InitEvict /\ [][NextEvict]_vars

\* ----------------------------------------------- the verifier on its own

InitVerify ==
    /\ env \in {[signingSecret |-> s, apiKey |-> TRUE, botToken |-> TRUE]
                    : s \in {NoSecret, SlackSecret}}
    /\ now = ClockValue
    /\ Idle
    /\ vreq \in VerifyInputs(ClockValue)
    /\ vres = "none"
    /\ Aside

\* verifySlackSignature(req)
Verify ==
    /\ vres = "none"
    /\ vres' = VerifySlackSignature(vreq, env.signingSecret, now)
    /\ UNCHANGED <<env, now, vreq, otherVars>>
    /\ UNCHANGED routerVars

NextVerify == Verify

SpecVerify == InitVerify /\ [][NextVerify]_vars

\* ---------------------------------------- the producers' buttons, clicked

InitButtons ==
    /\ env = [signingSecret |-> NoSecret, apiKey |-> TRUE, botToken |-> TRUE]
    /\ now = ClockValue
    /\ Idle
    /\ vreq = NoRequest
    /\ vres = "none"
    /\ pin \in ProducerInputs
    /\ emitted = {}
    /\ parsed = NoParsed
    /\ WebIdle
    /\ ClientIdle

\* The producer builds its message: the action buttons that carry a value.
Emit ==
    /\ emitted = {}
    /\ parsed = NoParsed
    /\ emitted' = {b \in ProducedMessage(pin).btns : b.hasValue}
    /\ emitted' # {}
    /\ UNCHANGED <<env, now, vreq, vres, pin, parsed, webVars, clientVars>>
    /\ UNCHANGED routerVars

\* The button is clicked: slack-actions.js runs the handler of its action_id
\* up to its first remote call.
Click ==
    /\ parsed = NoParsed
    /\ \E b \in emitted :
            parsed' = [btn |-> b, id |-> EncodedId(pin, b),
                       step |-> ActionStep(ClickOn(b, TRUE), 0, "none")]
    /\ UNCHANGED <<env, now, vreq, vres, pin, emitted, webVars, clientVars>>
    /\ UNCHANGED routerVars

NextButtons == Emit \/ Click

SpecButtons == InitButtons /\ [][NextButtons]_vars

\* ---------------- report-error, submit-feedback, slack-notify: the handlers

InitWeb ==
    /\ env = [signingSecret |-> NoSecret, apiKey |-> TRUE, botToken |-> TRUE]
    /\ now = ClockValue
    /\ Idle
    /\ vreq = NoRequest
    /\ vres = "none"
    /\ pin = NoProduce
    /\ emitted = {}
    /\ parsed = NoParsed
    /\ wenv \in WebEnvs
    /\ wreq \in WebRequests
    /\ wpc = "received"
    /\ wlog = <<>>
    /\ grouped = <<>>
    /\ issue = 0
    /\ wmsg = Ret(NoMsg)
    /\ ClientIdle

WebFixed == <<env, now, vreq, vres, pin, emitted, parsed, wenv, wreq, clientVars>>

\* The handler answers and returns.
Answer(status) ==
    /\ wlog' = Append(wlog, WResp(status))
    /\ wpc' = "done"

\* The catch block of report-error and of submit-feedback:
\* res.status(500).json({ error: 'Internal server error' })
CaughtError == [WResp(500) EXCEPT !.message = <<"Internal server error">>]

AnswerCaught ==
    /\ wlog' = Append(wlog, CaughtError)
    /\ wpc' = "done"

Credentials(e) == e.token /\ e.owner /\ e.repo

\* report-error.js handler, lines 14-47: up to the first createGitHubIssue.
\* Destructuring an undefined body throws into the catch block.
ReportEnter ==
    /\ wpc = "received"
    /\ wreq.endpoint = "report-error"
    /\ LET b == wreq.body
       IN  IF wreq.method = "OPTIONS" THEN Answer(200) /\ UNCHANGED grouped
           ELSE IF wreq.method # "POST" THEN Answer(405) /\ UNCHANGED grouped
           ELSE IF ~b.has THEN AnswerCaught /\ UNCHANGED grouped
           ELSE IF b.errors.k # "array" \/ Len(b.errors.list) = 0
                THEN Answer(400) /\ UNCHANGED grouped
           ELSE IF ~Credentials(wenv) THEN Answer(500) /\ UNCHANGED grouped
           \* createGitHubIssue reads environment.url while it builds the body
           ELSE IF ~b.environment THEN AnswerCaught /\ UNCHANGED grouped
           ELSE /\ grouped' = groupErrors(b.errors.list)
                /\ wpc' = "create"
                /\ UNCHANGED wlog
    /\ UNCHANGED <<issue, wmsg>>
    /\ UNCHANGED WebFixed
    /\ UNCHANGED routerVars

\* submit-feedback handler, slack-commands.js lines 494-528
FeedbackEnter ==
    /\ wpc = "received"
    /\ wreq.endpoint = "submit-feedback"
    /\ LET b == wreq.body
       IN  IF wreq.method = "OPTIONS" THEN Answer(200) /\ UNCHANGED grouped
           ELSE IF wreq.method # "POST" THEN Answer(405) /\ UNCHANGED grouped
           ELSE IF ~b.has \/ ~Truthy(b.title) \/ b.type = ""
                THEN Answer(400) /\ UNCHANGED grouped
           ELSE IF ~Credentials(wenv) THEN Answer(500) /\ UNCHANGED grouped
           ELSE /\ grouped' = <<FeedbackGroup(b)>>
                /\ wpc' = "create"
                /\ UNCHANGED wlog
    /\ UNCHANGED <<issue, wmsg>>
    /\ UNCHANGED WebFixed
    /\ UNCHANGED routerVars

\* The labels of the issue the handler files for a group.
LabelsOf(r, group) ==
    IF r.endpoint = "report-error" THEN ErrorLabels(group)
    ELSE IF r.body.type = "bug" THEN createBugIssue(r.body)
    ELSE createFeatureIssue(r.body)

\* The loop goes on to the next group, or the handler answers 200.
NextGroup(l) ==
    IF Len(grouped) > 1
    THEN /\ grouped' = Tail(grouped)
         /\ wpc' = "create"
         /\ wlog' = l
    ELSE /\ grouped' = <<>>
         /\ wpc' = "done"
         /\ wlog' = Append(l, WResp(200))

\* await createGitHubIssue(...): the tracker numbers its issues as they come.
CreateIssue(o) ==
    /\ wpc = "create"
    /\ LET n == Cardinality({i \in 1..Len(wlog) : wlog[i].op = "create_issue"}) + 1
           r == createGitHubIssue(o, n)
           l == Append(wlog, WCall("create_issue", Head(grouped), LabelsOf(wreq, Head(grouped)),
                                   r.number, o))
       IN  IF r.thrown
           THEN /\ wlog' = Append(l, CaughtError)
                /\ wpc' = "done"
                /\ UNCHANGED <<grouped, issue>>
           ELSE /\ issue' = r.number
                /\ IF wenv.webhook
                   THEN /\ wpc' = "notify"
                        /\ wlog' = l
                        /\ UNCHANGED grouped
                   ELSE NextGroup(l)
    /\ UNCHANGED wmsg
    /\ UNCHANGED WebFixed
    /\ UNCHANGED routerVars

\* await notifySlack(webhook, group, issue): the answer of the webhook is not
\* looked at; a rejected fetch throws.
Notify(o) ==
    /\ wpc = "notify"
    /\ LET l == Append(wlog, WCall("notify", Head(grouped), {}, issue, o))
       IN  IF o = "network_error"
           THEN /\ wlog' = Append(l, CaughtError)
                /\ wpc' = "done"
                /\ UNCHANGED grouped
           ELSE NextGroup(l)
    /\ UNCHANGED <<issue, wmsg>>
    /\ UNCHANGED WebFixed
    /\ UNCHANGED routerVars

\* slack-notify handler, slack-actions.js lines 311-336: up to the fetch
NotifyEnter ==
    /\ wpc = "received"
    /\ wreq.endpoint = "slack-notify"
    /\ LET b == wreq.body
           m == buildMessage(b.type, b.data)
       IN  IF wreq.method = "OPTIONS" THEN Answer(200) /\ UNCHANGED wmsg
           ELSE IF wreq.method # "POST" THEN Answer(405) /\ UNCHANGED wmsg
           ELSE IF ~b.has THEN Answer(500) /\ UNCHANGED wmsg
           ELSE IF b.type = "" THEN Answer(400) /\ UNCHANGED wmsg
           ELSE IF getWebhookUrl(b.type, wenv) = "" THEN Answer(500) /\ UNCHANGED wmsg
           ELSE /\ wmsg' = m
                /\ IF m.type = "throw" THEN Answer(500)
                   ELSE wpc' = "send" /\ UNCHANGED wlog
    /\ UNCHANGED <<grouped, issue>>
    /\ UNCHANGED WebFixed
    /\ UNCHANGED routerVars

\* await fetch(webhookUrl, ...): a webhookUrl that is no URL rejects.
SendNotification(o) ==
    /\ wpc = "send"
    /\ getWebhookUrl(wreq.body.type, wenv) = "inherited" => o = "network_error"
    /\ wlog' = <<WCall("send", NoGroup, {}, 0, o), WResp(IF Ok(o) THEN 200 ELSE 500)>>
    /\ wpc' = "done"
    /\ UNCHANGED <<grouped, issue, wmsg>>
    /\ UNCHANGED WebFixed
    /\ UNCHANGED routerVars

NextWeb ==
    \/ ReportEnter
    \/ FeedbackEnter
    \/ NotifyEnter
    \/ \E o \in {"ok", "http_error", "network_error"} : CreateIssue(o)
    \/ \E o \in {"ok", "http_error", "network_error"} : Notify(o)
    \/ \E o \in {"ok", "http_error", "network_error"} : SendNotification(o)

SpecWeb == InitWeb /\ [][NextWeb]_vars

\* ================================================================ claims

CallsMade == {i \in DOMAIN log : log[i].t = "call"}
ResponsesWritten == {i \in DOMAIN log : log[i].t = "response"}
TrackerCalls == {i \in CallsMade : log[i].call.kind = "tracker"}
CallbackPosts == {i \in CallsMade : log[i].call.kind = "callback"}
Dispatches == {i \in CallsMade : log[i].call.op = "dispatch"}

\* The request was acknowledged: its handler went past the signature check.
Acknowledged == phase \in {"acknowledged", "processing", "responded", "failed"}

\* The handler of the current request has finished, one way or the other.
Finished == pc \in {"done", "raised"}

\* The signature header is the one Slack computes over the raw body.
CorrectlySigned(r) == r.sig = Sign(SlackSecret, r.ts, RawBody(r))

\* The timestamp header is a number within the replay window.
InWindow(r, t) == r.ts.k = "int" /\ Abs(t - r.ts.n) <= ReplayWindow

\* C1: a request leads to an outbound call or to a change of the
\* conversation cache only if verifySlackSignature returned true for it (a
\* missing header or a missing signing secret counting as a failure), and a
\* request that failed verification is answered 401.
C1_FailClosed ==
    /\ (CallsMade # {} \/ history # NoHistory) => verified = "true"
    /\ (Finished /\ verified \in {"false", "throws", "skipped"}) => log = <<Resp(401)>>

\* C2: verifySlackSignature returns true for every request that carries the
\* signature Slack computes over the raw body and a timestamp within 300 s
\* of now, whether the body reaches the handler as a string or as a parsed
\* object; with one character of that signature changed it returns false.
C2_SignedVerifies ==
    (vres # "none" /\ env.signingSecret = SlackSecret /\ InWindow(vreq, now)) =>
        /\ CorrectlySigned(vreq) => vres = "true"
        /\ (\E i \in 1..(Len(V0Prefix) + DigestLen) :
                vreq.sig = Tamper(Sign(SlackSecret, vreq.ts, RawBody(vreq)),
                                  [how |-> "flip", at |-> i]))
            => vres = "false"

\* C3: for every combination of headers, a signature of another length and
\* a non-numeric timestamp included, verifySlackSignature yields a boolean
\* and never raises.
C3_VerifierNeverRaises == vres \in {"none", "true", "false"}

\* C4: a correctly signed request with timestamp t verifies true when
\* |now - t| <= 300 and false when |now - t| > 300, in the past and in the
\* future.
C4_ReplayWindow ==
    (/\ vres # "none"
     /\ env.signingSecret = SlackSecret
     /\ CorrectlySigned(vreq)
     /\ vreq.ts.k = "int")
        => (vres = "true" <=> Abs(now - vreq.ts.n) <= ReplayWindow)

\* The transitions of an event's state; "none" is no event in flight.
PhaseSteps ==
    {<<"none", "received">>, <<"received", "acknowledged">>,
     <<"acknowledged", "processing">>, <<"processing", "responded">>,
     <<"processing", "failed">>}

\* C5: the 200 acknowledgement is written before any outbound call, at most
\* one HTTP response is written per request and exactly one, the
\* acknowledgement, once the event is acknowledged; the event moves
\* received -> acknowledged -> processing -> responded | failed and in no
\* other way while its handler runs.
C5_AckBeforeWork ==
    /\ [](/\ \A i \in CallsMade : \E j \in 1..(i - 1) : log[j] = Resp(200)
          /\ Cardinality(ResponsesWritten) <= 1
          /\ Acknowledged => (log # <<>> /\ log[1] = Resp(200)))
    /\ [][pc' # "idle" => (phase' = phase \/ <<phase, phase'>> \in PhaseSteps)]_vars

\* C5 witness: a verified slash command or button click was acknowledged,
\* called the tracker, posted to the callback URL and is responded.
C5_Witness ==
    /\ pc = "done"
    /\ phase = "responded"
    /\ verified = "true"
    /\ TrackerCalls # {}
    /\ CallbackPosts # {}

\* C6: at most one POST is issued to an event's callback URL.
C6_OneCallbackPost == Cardinality(CallbackPosts) <= 1

\* C7: an acknowledged slash-command or button-action event ends without
\* its handler raising.
C7_HandlerCompletes ==
    (Acknowledged /\ ev.endpoint \in {"commands", "actions"}) => pc # "raised"

\* The messages that report a failure.
FailureTags == {"error", "issue_not_found", "pr_not_found", "merge_failed", "deploy_failed"}

\* C8: when a tracker call of the handler returned a non-2xx status, the
\* message posted to the callback URL reports a failure.
C8_FailureReported ==
    \A i \in CallbackPosts :
        (\E j \in TrackerCalls : j < i /\ log[j].outcome = "http_error")
            => log[i].call.op \in FailureTags

\* C9: a workflow dispatch is made only while a confirm_deploy click is
\* handled; the /deploy command calls nothing but the callback URL and its
\* message carries the confirm_deploy and cancel_deploy buttons; a
\* cancel_deploy click makes no tracker call.
C9_DispatchOnlyOnConfirm ==
    /\ Dispatches # {} => (ev.endpoint = "actions" /\ ev.d.id = "confirm_deploy")
    /\ (ev.endpoint = "commands" /\ ev.d.id = "/deploy") =>
            /\ \A i \in CallsMade : log[i].call.kind = "callback"
            /\ pc = "deliver" =>
                    /\ result.tag = "deploy_requested"
                    /\ {b.action_id : b \in result.btns} = {"confirm_deploy", "cancel_deploy"}
    /\ (ev.endpoint = "actions" /\ ev.d.id = "cancel_deploy") => TrackerCalls = {}

\* C9 witness: the confirm_deploy button of a delivered /deploy message was
\* clicked and the workflow was dispatched.
C9_Witness ==
    /\ pc = "done"
    /\ Dispatches # {}
    /\ ev.src.action_id = "confirm_deploy"

\* C10: the branch the /deploy message names, the branch in its
\* confirm_deploy button's value (which decodes to {branch, requestedBy})
\* and the ref dispatched when the button is clicked are the same.
C10_SameBranch ==
    (ev.endpoint = "actions" /\ ev.src.action_id = "confirm_deploy") =>
        LET data == JSONparse(ev.src.value)
        IN  /\ data.ok
            /\ Prop(data, "requestedBy").val = UserName
            /\ Prop(data, "branch").val = ev.src.shown
            /\ \A i \in Dispatches : log[i].call.ref = ev.src.shown

\* What each command's handler, and no other, produces: the messages it
\* returns and the remote calls it makes.
HandlerTags(c) ==
    CASE c = "/bug" -> {"usage_bug", "bug_reported"}
      [] c = "/feature" -> {"usage_feature", "feature_requested"}
      [] c = "/ask-claude" -> {"usage_ask_claude", "not_configured", "claude_answer"}
      [] c = "/bug-status" -> {"issue_not_found", "issue_status", "no_open_bugs", "open_bugs"}
      [] c = "/deploy" -> {"deploy_requested"}
      [] c = "/approve-pr" -> {"usage_approve_pr", "pr_not_found", "pr_details"}
      [] OTHER -> {"unknown_command"}

HandlerCalls(c) ==
    CASE c = "/bug" -> {"create_issue"}
      [] c = "/feature" -> {"create_issue"}
      [] c = "/ask-claude" -> {"messages"}
      [] c = "/bug-status" -> {"get_issue", "list_issues"}
      [] c = "/approve-pr" -> {"get_pr"}
      [] OTHER -> {}

\* C11: in /slack-commands each of the six commands runs its own handler
\* (the message it builds and the calls it makes are that handler's), and
\* any other command string builds the "Unknown command" message, without a
\* tracker or LLM call and without an error, and that message is what is
\* posted to the callback URL.
C11_CommandRouting ==
    (ev.endpoint = "commands" /\ Acknowledged) =>
        /\ \A i \in CallsMade :
                log[i].call.kind # "callback" => log[i].call.op \in HandlerCalls(ev.d.id)
        /\ pc = "deliver" => result.tag \in HandlerTags(ev.d.id)
        /\ ev.d.id \notin CommandIds =>
                /\ pc \notin {"await", "catch"} \/ CallbackPosts # {}
                /\ \A i \in CallbackPosts :
                        (\A j \in CallbackPosts : i <= j) =>
                            log[i].call.op = "unknown_command"

\* C11 witness: a command the router does not know was answered with the
\* "Unknown command" message on the callback URL.
C11_Witness ==
    /\ pc = "done"
    /\ ev.endpoint = "commands"
    /\ ev.d.id = "/BUG"
    /\ log = <<Resp(200), Called(CallbackPost("unknown_command"), "ok")>>

\* C12: for every action button with a value that a producer emits
\* (report-error and submit-feedback notifications, the slack-notify
\* builders, the slash-command responses), the handler of its action_id
\* parses the value without raising, and the identifier it goes on with
\* (issue number, pull request number, branch) is the one the producer
\* encoded, as a plain string or as JSON.
C12_ValueRoundTrip ==
    parsed # NoParsed =>
        /\ parsed.step.type # "throw"
        /\ parsed.step.type = "call" => parsed.step.call.ref = parsed.id

\* The last n entries of s.
LastN(s, n) == SubSeq(s, Len(s) - n + 1, Len(s))

Min(a, b) == IF a < b THEN a ELSE b

\* C13: in every state of the conversation cache, the history stored under
\* each key has at most 20 entries and is the last (up to 20) of the entries
\* pushed onto it, in their order; with 25 pushed, the last 20.
C13_HistoryCapped ==
    \A i \in 1..Len(conversations) :
        LET k == SaidOf(said, conversations[i].key)
        IN  /\ Len(conversations[i].msgs) <= HistoryCap
            /\ conversations[i].msgs = LastN(k.msgs, Min(k.live, HistoryCap))

C15_CacheBounded ==
    /\ Len(conversations) <= MaxConversations
    /\ Cardinality({conversations[i].key : i \in 1..Len(conversations)}) = Len(conversations)

\* C15 witness: more than 100 threads were opened, the cache is full and the
\* first thread is no longer in it.
C15_Witness ==
    /\ Len(said) > MaxConversations
    /\ Len(conversations) = MaxConversations
    /\ ~HasKey(conversations, ToString(1))
    /\ pc = "done"

\* The calls of the handler's log with the given op.
WCalls(op) == {i \in 1..Len(wlog) : wlog[i].op = op}

\* The handler went through and answered 200.
Answered200 == wpc = "done" /\ wlog # <<>> /\ wlog[Len(wlog)] = WResp(200)

\* The reported errors with the (type, message) of the issue filed by call i.
ErrorsOfPair(errs, i) ==
    {j \in 1..Len(errs) : errs[j].type = wlog[i].type /\ errs[j].message = wlog[i].message}

\* The reported errors that went into the group of the issue filed by call i.
ErrorsOfGroup(errs, i) ==
    {j \in 1..Len(errs) : GroupKey(errs[j]) = wlog[i].type \o <<":">> \o wlog[i].message}

\* C16: for a non-empty errors array, /report-error files exactly one issue
\* per distinct (type, message) pair in it, never one issue for two pairs,
\* and the count of each issue is the number of errors with its pair.
C16_OneIssuePerPair ==
    (wreq.endpoint = "report-error" /\ Answered200) =>
        LET errs == wreq.body.errors.list
            pairs == {<<errs[j].type, errs[j].message>> : j \in 1..Len(errs)}
        IN  /\ Cardinality(WCalls("create_issue")) = Cardinality(pairs)
            /\ \A q \in pairs : \E i \in WCalls("create_issue") :
                    <<wlog[i].type, wlog[i].message>> = q
            /\ \A i \in WCalls("create_issue") :
                    wlog[i].count = Cardinality(ErrorsOfPair(errs, i))

\* C17: every reported error of severity critical or error ends up in an
\* issue labelled priority:high, besides bug and auto-detected; an issue
\* whose errors are all of severity low, medium or warning is not labelled
\* priority:high.
C17_SeverityLabels ==
    (wreq.endpoint = "report-error" /\ Answered200) =>
        LET errs == wreq.body.errors.list
        IN  /\ \A j \in 1..Len(errs) :
                    errs[j].severity \in {"critical", "error"} =>
                        \E i \in WCalls("create_issue") :
                            /\ j \in ErrorsOfGroup(errs, i)
                            /\ {"bug", "auto-detected", "priority:high"} \subseteq wlog[i].labels
            /\ \A i \in WCalls("create_issue") :
                    (\A j \in ErrorsOfGroup(errs, i) :
                        errs[j].severity \in {"low", "medium", "warning"})
                        => "priority:high" \notin wlog[i].labels

\* C18: /report-error answers 400 when errors is missing, not an array or
\* empty, whatever the credentials, and 500 when errors is a non-empty array
\* and a tracker credential is missing; in both cases it makes no call.
C18_ReportValidation ==
    (wreq.endpoint = "report-error" /\ wreq.method = "POST" /\ wpc = "done") =>
        LET b == wreq.body
            noErrors == ~b.has \/ b.errors.k # "array" \/ Len(b.errors.list) = 0
        IN  /\ noErrors => wlog = <<WResp(400)>>
            /\ (~noErrors /\ ~Credentials(wenv)) => wlog = <<WResp(500)>>

\* C19: in /report-error and /submit-feedback a chat notification comes
\* right after the create call of its issue, which succeeded, and carries
\* the number that call returned; after a create call that failed no
\* notification is sent.
C19_NotifyAfterCreate ==
    /\ \A i \in WCalls("notify") :
            /\ i > 1
            /\ wlog[i - 1].op = "create_issue"
            /\ Ok(wlog[i - 1].outcome)
            /\ wlog[i].number = wlog[i - 1].number
            /\ wlog[i].number > 0
            /\ <<wlog[i].type, wlog[i].message>> = <<wlog[i - 1].type, wlog[i - 1].message>>
    /\ \A i \in WCalls("create_issue") :
            ~Ok(wlog[i].outcome) => \A j \in WCalls("notify") : j < i

\* C19 witness: a report of two groups was handled, each issue created and
\* then notified, and a later create call failed.
C19_Witness ==
    /\ wreq.endpoint = "report-error"
    /\ wpc = "done"
    /\ Cardinality(WCalls("notify")) = 1
    /\ Cardinality(WCalls("create_issue")) = 2
    /\ wlog[Len(wlog)] = CaughtError
    /\ wlog[Len(wlog) - 1].op = "create_issue"

\* C20: buildMessage returns a message, without raising, for each of the six
\* kinds and for every other kind, whatever the data, absent or empty
\* included; with the default webhook set, a notification of an unknown
\* kind whose post succeeded is answered 200.
C20_BuildMessageTotal ==
    (wreq.endpoint = "slack-notify" /\ wreq.method = "POST" /\ wpc \in {"send", "done"}) =>
        LET b == wreq.body
        IN  /\ (b.has /\ b.type # "" /\ getWebhookUrl(b.type, wenv) # "")
                    => wmsg.type = "return"
            /\ (/\ wpc = "done"
                /\ b.has
                /\ b.type \notin NotifyKinds \cup {""}
                /\ wenv.webhook
                /\ \A i \in WCalls("send") : Ok(wlog[i].outcome))
                    => wlog[Len(wlog)] = WResp(200)

\* An event the chat handler works on: a mention of the bot or a direct
\* message, not written by a bot.
ChatEligible(d) ==
    d.kind = "chat" /\ (d.id = "app_mention" \/ d.chanType = "im") /\ ~d.bot

ChatWork(l) ==
    {i \in DOMAIN l : l[i].t = "call" /\ l[i].call.kind \in {"llm", "chat"}}

MaxStrLen == 4
MaxLimit == 5

\* A title longer than the limit of a header line.
LongTitleLen == 300

\* truncate(data.title, 60)
TitleLimit == 60

\* str.substring(start, end): both clamped to 0..length, swapped when
\* start > end.
Substring(str, start, end) ==
    LET clamp(i) == IF i < 0 THEN 0 ELSE Min(i, Len(str))
        a == Min(clamp(start), clamp(end))
        b == IF clamp(start) > clamp(end) THEN clamp(start) ELSE clamp(end)
    IN  SubSeq(str, a + 1, b)

Ellipsis == <<".", ".", ".">>

\* A truncate that cuts to maxLen characters in all, the dots included.
truncateWithin(str, maxLen) ==
    IF ~Truthy(str) THEN <<>>
    ELSE IF Len(str) > maxLen THEN Substring(str, 0, maxLen - 3) \o Ellipsis
    ELSE str

\* function truncate(str, maxLen)
truncate(str, maxLen) ==
    IF ~Truthy(str) THEN <<>>
    ELSE IF Len(str) > maxLen THEN Substring(str, 0, maxLen) \o Ellipsis
    ELSE str

TruncateInputs ==
    {[str |-> s, maxLen |-> n] : s \in SeqsUpTo({"a", "."}, MaxStrLen), n \in 0..MaxLimit}
        \cup {[str |-> [i \in 1..LongTitleLen |-> "a"], maxLen |-> TitleLimit]}

InitTruncate ==
    /\ ServerIdle
    /\ LoggerIdle
    /\ WidgetIdle
    /\ postText = <<>>
    /\ RaceIdle
    /\ AnalyzerIdle
    /\ tin \in TruncateInputs
    /\ tout = NoTruncated

Truncate ==
    /\ ~tout.called
    /\ tout' = [called |-> TRUE, str |-> truncate(tin.str, tin.maxLen)]
    /\ UNCHANGED <<tin, serverVars, loggerVars, widgetVars, postText, raceVars,
                   analyzerVars>>

NextTruncate == Truncate

SpecTruncate == InitTruncate /\ [][NextTruncate]_vars

MaxCaptures == 4
MaxClock == 120000

\* How far the clock moves when nothing is due before.
TickMs == 30000

\* ErrorLogger.configure({ maxErrorsPerMinute: 2 })
ConfiguredLimit == 2

\* CONFIG.maxErrorsPerMinute, CONFIG.batchInterval
MaxErrorsPerMinute == 10
BatchInterval == 5000

\* if (now - lastErrorReset > 60000)
MinuteMs == 60000

\* isRateLimited(): the counter and the window start it leaves, and what it
\* answers.
isRateLimited(t, count, reset, cfg) ==
    LET fresh == t - reset > MinuteMs
        c == (IF fresh THEN 0 ELSE count) + 1
    IN  [errorCount |-> c, lastErrorReset |-> IF fresh THEN t ELSE reset,
         limited |-> c > cfg.maxErrorsPerMinute]

\* scheduleBatchSend()
scheduleBatchSend(timer, t, cfg) ==
    IF timer.pending THEN timer ELSE [pending |-> TRUE, due |-> t + cfg.batchInterval]

\* sendToApi(payload): JSON.stringify(payload) throws on a value it cannot
\* write (a metadata object that refers to itself), and the catch block
\* drops the payload.
sendToApi(sent, errors) ==
    IF \A i \in DOMAIN errors : errors[i].writable THEN sent \o errors ELSE sent

\* flushErrors(): the queue is emptied before the payload is sent.
flushErrors ==
    /\ errorQueue' = <<>>
    /\ sentErrors' = IF errorQueue = <<>> THEN sentErrors
                      ELSE sendToApi(sentErrors, errorQueue)

InitLogger ==
    /\ ServerIdle
    /\ TruncIdle
    /\ WidgetIdle
    /\ postText = <<>>
    /\ RaceIdle
    /\ AnalyzerIdle
    /\ config \in {[maxErrorsPerMinute |-> m, batchInterval |-> BatchInterval]
                        : m \in {MaxErrorsPerMinute, ConfiguredLimit}}
    /\ clock = 0
    /\ errorQueue = <<>>
    /\ errorCount = 0
    /\ lastErrorReset = 0
    /\ batchTimer = NoTimer
    /\ sentErrors = <<>>
    /\ accepted = <<>>
    /\ nCaptured = 0

LoggerFixed ==
    <<config, serverVars, truncVars, widgetVars, postText, raceVars, analyzerVars>>

\* captureError(errorData), called by one of the listeners or through
\* window.ErrorLogger; only the metadata of a manual capture can be
\* unwritable.
Capture(writable) ==
    /\ nCaptured < MaxCaptures
    /\ nCaptured' = nCaptured + 1
    /\ LET r == isRateLimited(clock, errorCount, lastErrorReset, config)
           e == [id |-> nCaptured + 1, writable |-> writable]
       IN  /\ errorCount' = r.errorCount
           /\ lastErrorReset' = r.lastErrorReset
           /\ IF r.limited
              THEN UNCHANGED <<errorQueue, batchTimer, accepted>>
              ELSE /\ errorQueue' = Append(errorQueue, e)
                   /\ batchTimer' = scheduleBatchSend(batchTimer, clock, config)
                   /\ accepted' = Append(accepted, [id |-> e.id, at |-> clock])
    /\ UNCHANGED <<clock, sentErrors, LoggerFixed>>

\* The batch timer fires: flushErrors(); batchTimer = null.
TimerFires ==
    /\ batchTimer.pending
    /\ clock = batchTimer.due
    /\ flushErrors
    /\ batchTimer' = NoTimer
    /\ UNCHANGED <<clock, errorCount, lastErrorReset, accepted, nCaptured, LoggerFixed>>

\* window.ErrorLogger.flush()
Flush ==
    /\ errorQueue # <<>>
    /\ flushErrors
    /\ UNCHANGED <<clock, errorCount, lastErrorReset, batchTimer, accepted, nCaptured,
                   LoggerFixed>>

\* The beforeunload listener runs while the timer is pending; the user
\* stays on the page.
BeforeUnload ==
    /\ batchTimer.pending
    /\ flushErrors
    /\ UNCHANGED <<clock, errorCount, lastErrorReset, batchTimer, accepted, nCaptured,
                   LoggerFixed>>

\* Time passes, up to the moment the timer is due.
Tick ==
    /\ clock < MaxClock
    /\ batchTimer.pending => clock < batchTimer.due
    /\ clock' = IF batchTimer.pending /\ batchTimer.due < clock + TickMs
                THEN batchTimer.due ELSE clock + TickMs
    /\ UNCHANGED <<errorQueue, errorCount, lastErrorReset, batchTimer, sentErrors,
                   accepted, nCaptured, LoggerFixed>>

NextLogger ==
    \/ \E w \in BOOLEAN : Capture(w)
    \/ TimerFires
    \/ Flush
    \/ BeforeUnload
    \/ Tick

SpecLogger == InitLogger /\ [][NextLogger]_vars

\* The errors accepted in the 60 seconds that start with the i-th accepted.
AcceptedWithin(i) ==
    {j \in DOMAIN accepted :
        accepted[i].at <= accepted[j].at /\ accepted[j].at < accepted[i].at + MinuteMs}

Ids(es) == [i \in DOMAIN es |-> es[i].id]

\* C23: in any 60-second interval the logger accepts at most
\* maxErrorsPerMinute errors into its queue, however the captures are timed;
\* an error beyond the limit is never queued and never sent.
C23_RateLimit ==
    /\ \A i \in DOMAIN accepted :
            Cardinality(AcceptedWithin(i)) <= config.maxErrorsPerMinute
    /\ \A i \in DOMAIN errorQueue : \E j \in DOMAIN accepted :
            accepted[j].id = errorQueue[i].id
    /\ \A i \in DOMAIN sentErrors : \E j \in DOMAIN accepted :
            accepted[j].id = sentErrors[i].id

\* The time the oldest error of the queue was accepted.
FirstQueuedAt ==
    (CHOOSE a \in {accepted[j] : j \in DOMAIN accepted} : a.id = errorQueue[1].id).at

\* C25: every accepted error is sent once, in capture order, and no later
\* than batchInterval after the first error queued since the last flush;
\* a timer is pending whenever the queue is not empty.
C25_AllSentInOrder ==
    /\ Ids(accepted) = Ids(sentErrors) \o Ids(errorQueue)
    /\ errorQueue # <<>> =>
            /\ batchTimer.pending
            /\ clock <= batchTimer.due
            /\ batchTimer.due <= FirstQueuedAt + config.batchInterval

\* ---------------------------------------------- feedback-widget.js at work

MaxSubmits == 2

InitWidget ==
    /\ ServerIdle
    /\ TruncIdle
    /\ LoggerIdle
    /\ WidgetIdle
    /\ postText = <<>>
    /\ RaceIdle
    /\ AnalyzerIdle

WidgetFixed == <<serverVars, truncVars, loggerVars, postText, raceVars, analyzerVars>>

\* function togglePanel()
togglePanel(open) == ~open

\* A click on the trigger button, or on fw-close in the open panel.
ClickToggle ==
    /\ widgetOpen' = togglePanel(widgetOpen)
    /\ UNCHANGED <<view, titles, disabled, successTimers, resetTimers, nSubmits,
                   WidgetFixed>>

\* FeedbackWidget.open()
ApiOpen ==
    /\ ~widgetOpen
    /\ widgetOpen' = togglePanel(widgetOpen)
    /\ UNCHANGED <<view, titles, disabled, successTimers, resetTimers, nSubmits,
                   WidgetFixed>>

\* FeedbackWidget.close()
ApiClose ==
    /\ widgetOpen
    /\ widgetOpen' = togglePanel(widgetOpen)
    /\ UNCHANGED <<view, titles, disabled, successTimers, resetTimers, nSubmits,
                   WidgetFixed>>

\* A click on a tab of the open panel shows its form and hides fw-success.
ClickTab(tab) ==
    /\ widgetOpen
    /\ view # tab
    /\ view' = tab
    /\ UNCHANGED <<widgetOpen, titles, disabled, successTimers, resetTimers, nSubmits,
                   WidgetFixed>>

\* The user writes a title into the form that shows.
TypeTitle ==
    /\ widgetOpen
    /\ view \in {"bug", "feature"}
    /\ ~titles[view]
    /\ titles' = [titles EXCEPT ![view] = TRUE]
    /\ UNCHANGED <<widgetOpen, view, disabled, successTimers, resetTimers, nSubmits,
                   WidgetFixed>>

\* submitBug, submitFeature: a click on the submit button of the form that
\* shows; without a title nothing is sent.
Submit ==
    /\ widgetOpen
    /\ view \in {"bug", "feature"}
    /\ ~disabled[view]
    /\ titles[view]
    /\ nSubmits < MaxSubmits
    /\ nSubmits' = nSubmits + 1
    /\ disabled' = [disabled EXCEPT ![view] = TRUE]
    /\ UNCHANGED <<widgetOpen, view, titles, successTimers, resetTimers, WidgetFixed>>

\* sendFeedback: the fetch settles, either way showSuccess runs and the
\* button is enabled again.
FetchSettles(form) ==
    /\ disabled[form]
    /\ view' = "success"
    /\ successTimers' = successTimers + 1
    /\ disabled' = [disabled EXCEPT ![form] = FALSE]
    /\ UNCHANGED <<widgetOpen, titles, resetTimers, nSubmits, WidgetFixed>>

\* The 2500 ms timer of showSuccess: togglePanel(); setTimeout(resetForms, 300)
SuccessElapsed ==
    /\ successTimers > 0
    /\ successTimers' = successTimers - 1
    /\ widgetOpen' = togglePanel(widgetOpen)
    /\ resetTimers' = resetTimers + 1
    /\ UNCHANGED <<view, titles, disabled, nSubmits, WidgetFixed>>

\* function resetForms()
ResetForms ==
    /\ resetTimers > 0
    /\ resetTimers' = resetTimers - 1
    /\ titles' = [bug |-> FALSE, feature |-> FALSE]
    /\ view' = "bug"
    /\ UNCHANGED <<widgetOpen, disabled, successTimers, nSubmits, WidgetFixed>>

NextWidget ==
    \/ ClickToggle
    \/ ApiOpen
    \/ ApiClose
    \/ \E tab \in {"bug", "feature"} : ClickTab(tab)
    \/ TypeTitle
    \/ Submit
    \/ \E form \in {"bug", "feature"} : FetchSettles(form)
    \/ SuccessElapsed
    \/ ResetForms

SpecWidget == InitWidget /\ [][NextWidget]_vars

\* C24: when the success display of a completed submission has elapsed the
\* panel is closed, whatever the user did in between, and the forms are
\* reset afterwards.
C24_ClosedAfterSuccess ==
    /\ [][successTimers' < successTimers => ~widgetOpen']_vars
    /\ [][resetTimers' < resetTimers
            => (titles' = [bug |-> FALSE, feature |-> FALSE] /\ view' = "bug")]_vars

\* ------------------------------------------------- postToSlack at work
\* callClaude has returned a long text; the texts differ in their length
\* and in where their newlines are.

MaxNewlines == 2

HalfLen == ChunkMaxLen \div 2

NewlineOffsets ==
    {0, HalfLen - 1, HalfLen, ChunkMaxLen - HalfLen \div 2, ChunkMaxLen - 1, ChunkMaxLen,
     ChunkMaxLen + 1, ChunkMaxLen + HalfLen}

ReplyLengths ==
    {0, ChunkMaxLen, ChunkMaxLen + 1, ChunkMaxLen + HalfLen + 1, 2 * ChunkMaxLen + 2}

TextOf(len, newlines) == [i \in 1..len |-> IF (i - 1) \in newlines THEN "\n" ELSE "a"]

PostTexts ==
    {TextOf(len, nl) : len \in ReplyLengths,
                       nl \in {x \in SUBSET NewlineOffsets : Cardinality(x) <= MaxNewlines}}

InitPost ==
    /\ env = [signingSecret |-> NoSecret, apiKey |-> TRUE, botToken |-> TRUE]
    /\ now = ClockValue
    /\ req = NoRouterRequest
    /\ pc = "post_start"
    /\ ev = [endpoint |-> "claude", d |-> Representative("claude"), src |-> NoButton]
    /\ verified = "skipped"
    /\ phase = "processing"
    /\ log = <<Resp(200), Called(LlmCall, "ok")>>
    /\ pending = LlmCall
    /\ result = NoMsg
    /\ step = 0
    /\ history = NoHistory
    /\ chunks = <<>>
    /\ buttons = {}
    /\ conversations = <<>>
    /\ nEvents = 1
    /\ said = <<>>
    /\ vreq = NoRequest
    /\ vres = "none"
    /\ pin = NoProduce
    /\ emitted = {}
    /\ parsed = NoParsed
    /\ WebIdle
    /\ TruncIdle
    /\ LoggerIdle
    /\ WidgetIdle
    /\ RaceIdle
    /\ AnalyzerIdle
    /\ postText \in PostTexts

\* await postToSlack(channel, response, threadTs), up to its first post
PostReply ==
    /\ pc = "post_start"
    /\ StartPost(postText)
    /\ UNCHANGED <<env, now, req, ev, verified, log, pending, result, step, history,
                   buttons, conversations, nEvents, said, vreq, vres, otherVars>>

NextPost ==
    \/ PostReply
    \/ \E o \in {"ok", "http_error", "network_error"} : PostChunk(o)

SpecPost == InitPost /\ [][NextPost]_vars

RECURSIVE Flatten(_)
Flatten(ss) == IF ss = <<>> THEN <<>> ELSE Head(ss) \o Flatten(Tail(ss))

\* The chunks whose post came back, in posting order.
PostedChunks ==
    LET RECURSIVE Bodies(_)
        Bodies(l) ==
            IF l = <<>> THEN <<>>
            ELSE (IF Head(l).t = "call" /\ Head(l).call.kind = "chat"
                        /\ Head(l).outcome # "network_error"
                  THEN <<Head(l).body>> ELSE <<>>) \o Bodies(Tail(l))
    IN  Bodies(log)

\* The chunks posted and to be posted are a partition of the reply into
\* pieces of 1 to 3900 characters, all posted when postToSlack returns.
ChunksPartition ==
    pc \in {"post_chat", "done"} =>
        /\ Flatten(PostedChunks) \o Flatten(chunks) = postText
        /\ \A i \in DOMAIN chunks : Len(chunks[i]) \in 1..ChunkMaxLen
        /\ \A i \in DOMAIN PostedChunks : Len(PostedChunks[i]) \in 1..ChunkMaxLen
        /\ (pc = "done" /\ phase = "responded") => Flatten(PostedChunks) = postText

\* Where the text still to be posted is split: at its last newline among
\* the offsets lo..hi, when there is one.
SplitsAtNewline(lo, hi) ==
    (pc = "post_chat" /\ Len(Flatten(chunks)) > ChunkMaxLen) =>
        LET remaining == Flatten(chunks)
            hits == {i \in lo..hi : remaining[i + 1] = "\n"}
        IN  hits # {} => \A i \in hits : i <= Len(Head(chunks)) /\ Len(Head(chunks)) \in hits

MaxHandlers == 2

NoHandler == [pc |-> "idle", key |-> "", ref |-> 0, overlapped |-> FALSE]

\* An earlier exchange of thread t1.
EarlierExchange ==
    <<[role |-> "user", content |-> <<"0">>], [role |-> "assistant", content |-> ReplyText]>>

UserMessage(p) == [role |-> "user", content |-> <<ToString(p)>>]

\* What callClaude returns to invocation p.
ResponseTo(p, o) == IF o = "ok" THEN <<"r", ToString(p)>> ELSE SorryText

\* conversations.get(key): the reference of the stored array, 0 for undefined
StoredRef(c, key) ==
    IF HasKey(c, key) THEN c[CHOOSE i \in 1..Len(c) : c[i].key = key].ref ELSE 0

\* conversations.set(key, history)
StoreRef(c, key, ref) ==
    IF HasKey(c, key)
    THEN [i \in 1..Len(c) |-> IF c[i].key = key THEN [key |-> key, ref |-> ref] ELSE c[i]]
    ELSE Append(c, [key |-> key, ref |-> ref])

\* cleanupConversations() on the Map
CleanupRefs(c, h) ==
    LET kept == cleanupConversations([i \in 1..Len(c) |->
                                        [key |-> c[i].key, msgs |-> h[c[i].ref]]])
    IN  SelectSeq(c, LAMBDA x : HasKey(kept, x.key))

InitRace ==
    /\ ServerIdle
    /\ TruncIdle
    /\ LoggerIdle
    /\ WidgetIdle
    /\ postText = <<>>
    /\ AnalyzerIdle
    /\ handlers = [p \in 1..MaxHandlers |-> NoHandler]
    /\ \/ arrays = <<>> /\ storedRefs = <<>>
       \/ arrays = <<EarlierExchange>> /\ storedRefs = <<[key |-> "t1", ref |-> 1]>>

RaceFixed == <<serverVars, truncVars, loggerVars, widgetVars, postText, analyzerVars>>

\* Lines 51-68 of invocation p: the history of the thread, or a new array;
\* the user message pushed; the trim; callClaude up to its fetch.
BeginChat(p, th) ==
    /\ handlers[p].pc = "idle"
    /\ LET got == StoredRef(storedRefs, th)
           ref == IF got = 0 THEN Len(arrays) + 1 ELSE got
           old == IF got = 0 THEN <<>> ELSE arrays[got]
           h == PushTrim(old, UserMessage(p))
       IN  /\ arrays' = IF got = 0 THEN Append(arrays, h) ELSE [arrays EXCEPT ![got] = h]
           /\ handlers' = [handlers EXCEPT ![p] =
                                [pc |-> "await", key |-> th, ref |-> ref,
                                 overlapped |-> \E q \in DOMAIN handlers :
                                                    /\ handlers[q].pc = "await"
                                                    /\ handlers[q].key = th]]
    /\ UNCHANGED <<storedRefs, RaceFixed>>

\* Lines 68-78 of invocation p: callClaude returns, the reply is pushed, the
\* array stored, the Map cleaned up (the post that follows changes neither);
\* a rejected fetch leaves through the catch block.
FinishChat(p, o) ==
    /\ handlers[p].pc = "await"
    /\ IF o = "network_error"
       THEN /\ handlers' = [handlers EXCEPT ![p].pc = "failed"]
            /\ UNCHANGED <<arrays, storedRefs>>
       ELSE LET ref == handlers[p].ref
                h == Append(arrays[ref], [role |-> "assistant", content |-> ResponseTo(p, o)])
            IN  /\ arrays' = [arrays EXCEPT ![ref] = h]
                /\ storedRefs' =
                        CleanupRefs(StoreRef(storedRefs, handlers[p].key, ref), arrays')
                /\ handlers' = [handlers EXCEPT ![p].pc = "done"]
    /\ UNCHANGED RaceFixed

NextRace ==
    \/ \E p \in 1..MaxHandlers, th \in ChatThreads : BeginChat(p, th)
    \/ \E p \in 1..MaxHandlers, o \in {"ok", "http_error", "network_error"} :
            FinishChat(p, o)

SpecRace == InitRace /\ [][NextRace]_vars

\* The history stored for a thread.
StoredHistory(key) == arrays[StoredRef(storedRefs, key)]

Holds(msgs, m) == \E i \in DOMAIN msgs : msgs[i] = m

\* C27: when two chat events of one thread have been handled, their
\* handlers interleaved at the LLM call or not, the stored history of the
\* thread holds the user message and the reply of both; with an entry of the
\* thread in the Map before, and without.
C27_BothTurnsKept ==
    \A p, q \in DOMAIN handlers :
        (/\ p # q
         /\ handlers[p].pc = "done"
         /\ handlers[q].pc = "done"
         /\ handlers[p].key = handlers[q].key) =>
            /\ HasKey(storedRefs, handlers[p].key)
            /\ \A x \in {p, q} :
                    /\ Holds(StoredHistory(handlers[p].key), UserMessage(x))
                    /\ \E o \in {"ok", "http_error"} :
                            Holds(StoredHistory(handlers[p].key),
                                  [role |-> "assistant", content |-> ResponseTo(x, o)])

\* The calls of a report that failed: an issue the tracker did not create,
\* a notification the webhook did not take.
FailedCalls ==
    {i \in DOMAIN wlog : wlog[i].t = "call" /\ ~Ok(wlog[i].outcome)}

\* C28: in /report-error, when the issue of a group cannot be created or its
\* notification cannot be sent, the issues created for the groups before
\* stay as they are, no later group is attempted, and the answer is 500
\* "Internal server error", not the success body.
C28_NoRollbackOnFailure ==
    (wreq.endpoint = "report-error" /\ wpc = "done" /\ FailedCalls # {}) =>
        /\ \A i \in FailedCalls : i = Len(wlog) - 1
        /\ wlog[Len(wlog)] = CaughtError
        /\ \A j \in WCalls("create_issue") \ FailedCalls : wlog[j].number > 0
        /\ \A j \in DOMAIN wlog : wlog[j].t = "call" => wlog[j].op \in {"create_issue", "notify"}

\* The approval reviews and the squash merges of the invocation.
ReviewCalls == {i \in CallsMade : log[i].call.op = "create_review"}
MergeCalls == {i \in CallsMade : log[i].call.op = "merge"}
ApproveMerge ==
    ev.endpoint = "actions" /\ ev.d.kind = "action" /\ ev.d.id = "approve_merge_pr"

\* C29: handling approve_merge_pr, the approval review is called before the
\* squash merge and each at most once; the "approved and merged" message is
\* posted to the callback URL only after a merge that answered 2xx; after a
\* merge that answered non-2xx the handler's message is "Failed to merge"
\* with the tracker's response, and that is what the callback URL (when the
\* payload has one) is sent.
C29_ApproveThenMerge ==
    ApproveMerge =>
        /\ Cardinality(ReviewCalls) <= 1
        /\ Cardinality(MergeCalls) <= 1
        /\ \A m \in MergeCalls : \E r \in ReviewCalls : r < m
        /\ \A i \in CallbackPosts :
                log[i].call.op = "merged" =>
                    \E m \in MergeCalls : m < i /\ Ok(log[m].outcome)
        /\ \A m \in MergeCalls :
                log[m].outcome = "http_error" =>
                    /\ pc = "deliver" =>
                            result = [Msg("merge_failed") EXCEPT !.detail = log[m].outcome]
                    /\ (pc \in {"catch", "done", "raised"} /\ ev.d.hasUrl) =>
                            /\ Len(log) > m
                            /\ log[m + 1].call = CallbackPost("merge_failed")
                    /\ \A i \in CallbackPosts : log[i].call.op # "merged"

C29_Witness ==
    /\ ApproveMerge
    /\ pc = "done"
    /\ \E m \in MergeCalls :
            /\ log[m].outcome = "http_error"
            /\ Len(log) > m
            /\ log[m + 1] = Called(CallbackPost("merge_failed"), "ok")

\* ------------------------------------------------- scripts/bug-analyzer.js
\* One run of main().  analysis is what analyzeBug returns: fix tells
\* whether analysis.fix and analysis.fix.changes are there, and changes
\* holds, for each proposed change, whether String.replace of its original
\* in the file gives a content that differs from the file's.

MaxChanges == 2

Analyses ==
    {[fix |-> "undefined", changes |-> <<>>], [fix |-> "no_changes", changes |-> <<>>]}
        \cup {[fix |-> "object", changes |-> c] :
                c \in UNION {[1..n -> BOOLEAN] : n \in 0..MaxChanges}}

RunOutcomes == {"ok", "http_error", "network_error"}

\* analysis.fix && analysis.fix.changes && analysis.fix.changes.length > 0
Proposes(a) == a.fix = "object" /\ Len(a.changes) > 0

InitAnalyzer ==
    /\ ServerIdle
    /\ TruncIdle
    /\ LoggerIdle
    /\ WidgetIdle
    /\ postText = <<>>
    /\ RaceIdle
    /\ analysis \in Analyses
    /\ webhookUrl \in BOOLEAN
    /\ apc = "analyze"
    /\ changeIdx = 0
    /\ alog = <<>>

AnalyzerFixed ==
    <<analysis, webhookUrl, serverVars, truncVars, loggerVars, widgetVars, postText,
      raceVars>>

\* An awaited remote call is over with outcome o; main() goes on at next.
RunStep(op, arg, o, next) ==
    /\ alog' = Append(alog, [op |-> op, arg |-> arg, outcome |-> o])
    /\ apc' = next

\* githubApi: throws unless response.ok; a throw nobody catches ends the
\* run (main().catch: process.exit(1)).
GithubStep(op, arg, o, next) ==
    RunStep(op, arg, o, IF o = "ok" THEN next ELSE "failed")

\* main, step 5: if (SLACK_WEBHOOK_URL) await notifySlack(analysis)
AfterFix == IF webhookUrl THEN "notify" ELSE "remove_label"

\* createFixPR: the loop goes to the change after i, or to the pull request.
AfterChange(i) == IF i < Len(analysis.changes) THEN "get_file" ELSE "create_pr"

\* main, step 2: analyzeBug throws unless response.ok
Analyze(o) ==
    /\ apc = "analyze"
    /\ GithubStep("analyze", "", o, "comment")
    /\ UNCHANGED <<changeIdx, AnalyzerFixed>>

\* main, steps 3 and 4: commentOnIssue, then the branch on the proposal
CommentOnIssue(o) ==
    /\ apc = "comment"
    /\ GithubStep("comment", "analysis", o,
                  IF Proposes(analysis) THEN "get_repo" ELSE "manual_label")
    /\ UNCHANGED <<changeIdx, AnalyzerFixed>>

\* createFixPR: the default branch
GetRepo(o) ==
    /\ apc = "get_repo"
    /\ GithubStep("get_repo", "", o, "get_ref")
    /\ UNCHANGED <<changeIdx, AnalyzerFixed>>

\* createFixPR: the SHA of the default branch
GetRef(o) ==
    /\ apc = "get_ref"
    /\ GithubStep("get_ref", "", o, "create_branch")
    /\ UNCHANGED <<changeIdx, AnalyzerFixed>>

\* createFixPR: try { create the branch } catch { update it }
CreateBranch(o) ==
    /\ apc = "create_branch"
    /\ RunStep("create_branch", "", o, IF o = "ok" THEN "get_file" ELSE "update_branch")
    /\ changeIdx' = 1
    /\ UNCHANGED AnalyzerFixed

UpdateBranch(o) ==
    /\ apc = "update_branch"
    /\ GithubStep("update_branch", "", o, "get_file")
    /\ UNCHANGED <<changeIdx, AnalyzerFixed>>

\* createFixPR, the loop: the file is read; a throw is caught and a content
\* the replace leaves as it is is skipped, and the loop goes on.
GetFile(o) ==
    /\ apc = "get_file"
    /\ IF o = "ok" /\ analysis.changes[changeIdx]
       THEN /\ RunStep("get_file", ToString(changeIdx), o, "put_file")
            /\ UNCHANGED changeIdx
       ELSE /\ RunStep("get_file", ToString(changeIdx), o, AfterChange(changeIdx))
            /\ changeIdx' = changeIdx + 1
    /\ UNCHANGED AnalyzerFixed

\* createFixPR, the loop: the file is written to the branch; a throw is
\* caught and the loop goes on.
PutFile(o) ==
    /\ apc = "put_file"
    /\ RunStep("put_file", ToString(changeIdx), o, AfterChange(changeIdx))
    /\ changeIdx' = changeIdx + 1
    /\ UNCHANGED AnalyzerFixed

\* createFixPR: the pull request
CreatePR(o) ==
    /\ apc = "create_pr"
    /\ GithubStep("create_pr", "", o, "link_comment")
    /\ UNCHANGED <<changeIdx, AnalyzerFixed>>

\* createFixPR: the comment that links the pull request
LinkComment(o) ==
    /\ apc = "link_comment"
    /\ GithubStep("comment", "link", o, AfterFix)
    /\ UNCHANGED <<changeIdx, AnalyzerFixed>>

\* addLabel('needs-manual-review'): a throw is caught inside addLabel
AddManualLabel(o) ==
    /\ apc = "manual_label"
    /\ RunStep("add_label", "needs-manual-review", o, AfterFix)
    /\ UNCHANGED <<changeIdx, AnalyzerFixed>>

\* notifySlack: analysis.fix.changes.length throws on an analysis without
\* fix or changes, before the fetch; the response of the fetch is not
\* looked at, a rejected fetch throws.
NotifySlack(o) ==
    /\ apc = "notify"
    /\ IF analysis.fix # "object"
       THEN /\ o = "ok"
            /\ apc' = "failed"
            /\ UNCHANGED alog
       ELSE RunStep("notify", "", o, IF o = "network_error" THEN "failed" ELSE "remove_label")
    /\ UNCHANGED <<changeIdx, AnalyzerFixed>>

\* removeLabel('ai-analyze'): a throw is caught inside removeLabel
RemoveLabel(o) ==
    /\ apc = "remove_label"
    /\ RunStep("remove_label", "ai-analyze", o, "analyzed_label")
    /\ UNCHANGED <<changeIdx, AnalyzerFixed>>

\* addLabel('ai-analyzed')
AddAnalyzedLabel(o) ==
    /\ apc = "analyzed_label"
    /\ RunStep("add_label", "ai-analyzed", o, "done")
    /\ UNCHANGED <<changeIdx, AnalyzerFixed>>

NextAnalyzer ==
    \E o \in RunOutcomes :
        \/ Analyze(o)
        \/ CommentOnIssue(o)
        \/ GetRepo(o)
        \/ GetRef(o)
        \/ CreateBranch(o)
        \/ UpdateBranch(o)
        \/ GetFile(o)
        \/ PutFile(o)
        \/ CreatePR(o)
        \/ LinkComment(o)
        \/ AddManualLabel(o)
        \/ NotifySlack(o)
        \/ RemoveLabel(o)
        \/ AddAnalyzedLabel(o)

SpecAnalyzer == InitAnalyzer /\ [][NextAnalyzer]_vars

RunCalls(op) == {i \in DOMAIN alog : alog[i].op = op}
Succeeded(op) == {i \in RunCalls(op) : alog[i].outcome = "ok"}
LabelCalls(label) == {i \in DOMAIN alog : alog[i].arg = label}

\* C30: in a bug-analyzer run a pull request is opened only when the
\* analysis proposed a change and one of the proposed changes was written
\* to the fix branch; when the analysis proposes no change no branch and no
\* pull request is made and needs-manual-review is added; ai-analyze is
\* removed and ai-analyzed added only after the pull request and its
\* comment, or the needs-manual-review label, were made without error.
C30_PrOnlyWithAppliedChange ==
    /\ Succeeded("create_pr") # {} =>
            Proposes(analysis) /\ Succeeded("put_file") # {}
    /\ ~Proposes(analysis) =>
            /\ \A op \in {"create_branch", "update_branch", "create_pr"} : RunCalls(op) = {}
            /\ apc \in {"notify", "remove_label", "analyzed_label", "done"} =>
                    LabelCalls("needs-manual-review") # {}
    /\ LabelCalls("ai-analyze") \cup LabelCalls("ai-analyzed") # {} =>
            IF Proposes(analysis)
            THEN Succeeded("create_pr") # {} /\ LabelCalls("link") \subseteq Succeeded("comment")
            ELSE LabelCalls("needs-manual-review") \subseteq Succeeded("add_label")

====
